---- MODULE Spec2Model ----
(***************************************************************************)
(* A model of ImapService (src/src/imap-service.ts): the connection        *)
(* lifecycle helper connectAndRun, the callback chains of the public       *)
(* mailbox operations, and the transport (the imap library) as the         *)
(* environment that fires the events the code subscribes to.               *)
(*                                                                         *)
(* Every handler of the code (an event handler or a command callback) is   *)
(* one atomic step: JavaScript runs a handler, and the promise reactions   *)
(* it schedules, to completion before the next transport event.            *)
(***************************************************************************)
EXTENDS Integers, Sequences, FiniteSets, TLC

\* ------------------------------------------------------------------ bounds
NumOps     == 2    \* operations a caller may have in flight at once
MaxCount   == 2    \* largest `count` argument of listMessages / listUnread
MaxTotal   == 2    \* largest box.messages.total the server reports
MaxMatches == 2    \* largest number of identifiers a search returns
MaxIds     == 2    \* largest messageIds array
MaxLabels  == 2    \* largest labels array of labelMessage
MaxDate    == 2    \* distinct receipt timestamps of fetched messages

\* ------------------------------------------------------- program constants
SearchLimit == 50  \* results.slice(0, 50)

Ops     == 1..NumOps
ConnIds == 1..NumOps

VARIABLES
    ops,       \* ops[o]: one call of a public operation: its arguments, its
               \* closure's locals, its promise and the calls it has made
    conns,     \* conns[c]: one Imap object made by createImapConnection
    nextConn   \* number of Imap objects constructed so far

vars == <<ops, conns, nextConn>>

\* ------------------------------------------------------------------ values
\* An error value: whether it is an instance of Error, and its message (a
\* sequence of text parts). NoErr is the null a callback gets on success.
NoErr == [isError |-> FALSE, msg |-> <<>>]
Err(m) == [isError |-> TRUE, msg |-> <<m>>]

Max(a, b) == IF a >= b THEN a ELSE b
Min(a, b) == IF a <= b THEN a ELSE b
Last(s) == s[Len(s)]

\* A mailbox path is the sequence of its parts: names and the delimiter
\* characters between them, so "[Gmail]/Trash" is <<"[Gmail]", "/", "Trash">>
\* and "Work.Project" is <<"Work", ".", "Project">>.
INBOX == <<"INBOX">>
TRASH == <<"[Gmail]", "/", "Trash">>
BIN   == <<"[Gmail]", "/", "Bin">>
SENT  == <<"[Gmail]", "/", "Sent Mail">>

\* The world a handler runs in; handlers are operators from world to world so
\* that a handler's statements compose in the order the code runs them.
World == [ops |-> ops, conns |-> conns, nextConn |-> nextConn]

Commit(w) ==
    /\ ops' = w.ops
    /\ conns' = w.conns
    /\ nextConn' = w.nextConn

Log(w, o, ev) == [w EXCEPT !.ops[o].log = Append(@, ev)]

\* ------------------------------------------------- arguments and results
\* A cc or bcc value of sendMessage: undefined, a string (a sequence of text
\* parts), or an array of strings.
NoValue == [kind |-> "undefined", str |-> <<>>, list |-> <<>>]
Str(s)  == [kind |-> "string", str |-> s, list |-> <<>>]
Arr(l)  == [kind |-> "array", str |-> <<>>, list |-> l]

NoArgs ==
    [count |-> 0, query |-> <<>>, ids |-> <<>>, labels |-> <<>>,
     box |-> <<>>, to |-> <<>>, cc |-> NoValue, bcc |-> NoValue]

NoResult ==
    [success |-> FALSE, messages |-> <<>>, totalCount |-> 0, n |-> 0,
     labels |-> <<>>, query |-> <<>>, err |-> NoErr,
     messageId |-> <<>>, message |-> <<>>]

Rejected(err) == [NoResult EXCEPT !.err = err]

\* ------------------------------------------------------- EmailOperations
\* error instanceof Error ? error.message : 'Unknown error'
messageOf(error) == IF error.isError THEN error.msg ELSE <<"Unknown error">>

\* { messageId: '', success: false, message: `Failed to send email: ...` }
SendFailed(error) ==
    [NoResult EXCEPT !.message = <<"Failed to send email: ">> \o messageOf(error)]

\* The text each method of EmailOperations puts before the error's message.
FailedTo(kind) ==
    CASE kind = "listMessages" -> "Failed to list messages: "
      [] kind = "listUnreadMessages" -> "Failed to list unread messages: "
      [] kind = "searchMessages" -> "Failed to search messages: "
      [] kind = "markMessagesAsRead" -> "Failed to mark messages as read: "
      [] kind = "deleteMessages" -> "Failed to delete messages: "
      [] kind = "createLabel" -> "Failed to create label: "
      [] kind = "labelMessage" -> "Failed to label message: "
      [] kind = "moveMessage" -> "Failed to move message: "
      [] kind = "listLabels" -> "Failed to list labels: "
      [] kind = "deleteLabel" -> "Failed to delete label: "
      [] kind = "renameLabel" -> "Failed to rename label: "
      [] kind = "moveLabel" -> "Failed to move label: "
      [] OTHER -> ""

\* What the caller of an EmailOperations method has got: nothing yet, a
\* returned value, or a thrown error.
NoOutcome == [state |-> "none", value |-> NoResult, error |-> NoErr]

\* return await this.imapService.method(...): the value is passed through
emailOperations_then(kind, val) ==
    IF FailedTo(kind) = "" /\ kind # "sendMessage" THEN NoOutcome
    ELSE [state |-> "returned", value |-> val, error |-> NoErr]

\* Faulty variant of emailOperations_catch: a failure becomes an empty
\* success payload.
emailOperations_catch_swallowed(kind, error) ==
    [state |-> "returned", value |-> [NoResult EXCEPT !.success = TRUE],
     error |-> NoErr]

\* catch (error) { throw new Error(`Failed to ...: ${...}`) }; sendMessage
\* returns a failure result instead
emailOperations_catch(kind, error) ==
    IF kind = "sendMessage"
    THEN [state |-> "returned", value |-> SendFailed(error), error |-> NoErr]
    ELSE IF FailedTo(kind) = "" THEN NoOutcome
    ELSE [state |-> "thrown", value |-> NoResult,
          error |-> [isError |-> TRUE,
                     msg |-> <<FailedTo(kind)>> \o messageOf(error)]]

\* ---------------------------------------------------------- initial state
NewOp ==
    [kind |-> "none", args |-> NoArgs, imap |-> 0,
     promise |-> "none", result |-> NoResult, log |-> <<>>,
     openErr |-> NoErr, matches |-> 0,
     fetch |-> [promise |-> "none", want |-> 0, seen |-> 0,
                errored |-> FALSE, items |-> <<>>, messages |-> <<>>],
     copies |-> [promise |-> "none", left |-> 0],
     caller |-> NoOutcome,
     parsed |-> [folder |-> <<>>, searchTerms |-> <<>>]]

NewConn ==
    [state |-> "idle", readyH |-> {}, errorH |-> {}, pending |-> {},
     issued |-> 0, endCalls |-> 0]

Init ==
    /\ ops = [o \in Ops |-> NewOp]
    /\ conns = [c \in ConnIds |-> NewConn]
    /\ nextConn = 0

\* ----------------------------------------------------- promise settlement
\* A promise settles once; later calls of resolve or reject are no-ops.
resolve(w, o, val) ==
    LET w1 == Log(w, o, [e |-> "resolve"])
    IN  IF w1.ops[o].promise = "pending"
        THEN [w1 EXCEPT !.ops[o].promise = "resolved", !.ops[o].result = val,
                        !.ops[o].caller =
                            emailOperations_then(w.ops[o].kind, val)]
        ELSE w1

\* Faulty variant of reject: a later rejection replaces the outcome.
reject_overriding(w, o, err) ==
    LET w1 == Log(w, o, [e |-> "reject", err |-> err])
    IN  [w1 EXCEPT !.ops[o].promise = "rejected",
                   !.ops[o].result = Rejected(err),
                   !.ops[o].caller = emailOperations_catch(w.ops[o].kind, err)]

reject(w, o, err) ==
    LET w1 == Log(w, o, [e |-> "reject", err |-> err])
    IN  IF w1.ops[o].promise = "pending"
        THEN [w1 EXCEPT !.ops[o].promise = "rejected",
                         !.ops[o].result = Rejected(err),
                         !.ops[o].caller =
                             emailOperations_catch(w.ops[o].kind, err)]
        ELSE w1

\* ---------------------------------------------------------- connectAndRun
\* Faulty variant of createImapConnection: one cached Imap object for every call.
createImapConnection_shared(w) == 1

createImapConnection(w) == w.nextConn + 1

\* imap.end()
imapEnd(w, o) ==
    LET c == w.ops[o].imap
    IN  Log([w EXCEPT !.conns[c].endCalls = @ + 1], o, [e |-> "end"])

\* const cleanup = () => { try { imap.end(); } catch (e) { /* ignore */ } }
cleanup(w, o) == imapEnd(w, o)

\* (val) => { cleanup(); resolve(val); }
succeed(w, o, val) == resolve(cleanup(w, o), o, val)

\* Faulty variant of fail: the promise is rejected before the connection is closed.
fail_rejectFirst(w, o, err) == cleanup(reject(w, o, err), o)

\* (err) => { cleanup(); reject(err); }
fail(w, o, err) == reject(cleanup(w, o), o, err)

\* A command handed to the library: its callback (k names the continuation
\* the code passed) is outstanding until the transport completes it.
Cmd(name, box, ro, ids, text, to, k) ==
    [name |-> name, box |-> box, ro |-> ro, ids |-> ids, text |-> text,
     to |-> to, k |-> k]

issue(w, o, cmd) ==
    LET c  == w.ops[o].imap
        id == w.conns[c].issued + 1
        rec == [id |-> id, op |-> o, name |-> cmd.name, box |-> cmd.box,
                ro |-> cmd.ro, ids |-> cmd.ids, text |-> cmd.text,
                to |-> cmd.to, k |-> cmd.k]
    IN  Log([w EXCEPT !.conns[c].issued = id,
                      !.conns[c].pending = @ \cup {rec}],
            o, [e |-> "cmd", cmd |-> rec])

\* The transport completes an outstanding command: its callback is about to
\* run with err (NoErr for success).
complete(w, o, rec, err) ==
    LET c == w.ops[o].imap
    IN  Log([w EXCEPT !.conns[c].pending = @ \ {rec}],
            o, [e |-> "cb", cmd |-> rec, err |-> err])

\* What a completed command handed its callback besides err: the matched
\* identifiers of a search (results), the message count of an opened mailbox
\* (box.messages.total).
received(w, o, results) ==
    Log(w, o, [e |-> "results", defined |-> results.defined,
               ids |-> results.ids])

opened(w, o, total) == Log(w, o, [e |-> "box", total |-> total])

Pending(o, k) ==
    IF ops[o].imap = 0 THEN {}
    ELSE {rec \in conns[ops[o].imap].pending : rec.op = o /\ rec.k = k}


\* new Imap(...); imap.once('ready', ...); imap.once('error', ...)
newConnection(w, o) ==
    LET c == createImapConnection(w)
    IN  Log([w EXCEPT !.nextConn = @ + 1, !.ops[o].imap = c],
            o, [e |-> "createConn"])

registerHandlers(w, o) ==
    LET c  == w.ops[o].imap
        w1 == Log([w EXCEPT !.conns[c].readyH = @ \cup {o}], o,
                  [e |-> "once", name |-> "ready"])
    IN  Log([w1 EXCEPT !.conns[c].errorH = @ \cup {o}], o,
            [e |-> "once", name |-> "error"])

\* imap.connect()
imapConnect(w, o) ==
    LET c == w.ops[o].imap
    IN  Log([w EXCEPT !.conns[c].state =
                        IF @ = "idle" THEN "connecting" ELSE @],
            o, [e |-> "connect"])

\* Faulty variant of connectAndRun: connect() is called before the handlers exist.
connectAndRun_connectFirst(w, o) ==
    registerHandlers(imapConnect(newConnection(w, o), o), o)

\* The executor of the promise connectAndRun returns.
connectAndRun(w, o) ==
    imapConnect(registerHandlers(newConnection(w, o), o), o)

\* ------------------------------------------------------- pure helpers
\* A query is the sequence of its characters, each a one-character string.
\* InTok(x) is the text "in:x", Word(x) the text x.
InTok(x) == <<"i", "n", ":">> \o x
Word(x)  == x

UpperCase ==
    <<"A", "B", "C", "D", "E", "F", "G", "H", "I", "J", "K", "L", "M",
      "N", "O", "P", "Q", "R", "S", "T", "U", "V", "W", "X", "Y", "Z">>

LowerCase ==
    <<"a", "b", "c", "d", "e", "f", "g", "h", "i", "j", "k", "l", "m",
      "n", "o", "p", "q", "r", "s", "t", "u", "v", "w", "x", "y", "z">>

\* String.prototype.toLowerCase(): character by character; the header names
\* written as one word are lower-cased as a whole.
toLowerCase(s) ==
    LET lowered[t \in {s}] ==
            LET lower[c \in {t[i] : i \in 1..Len(t)}] ==
                    CASE c \in {"Subject", "SUBJECT"} -> "subject"
                      [] c \in {"From", "FROM"} -> "from"
                      [] c \in {"To", "TO"} -> "to"
                      [] \E k \in 1..Len(UpperCase) : UpperCase[k] = c ->
                            LowerCase[CHOOSE k \in 1..Len(UpperCase) :
                                          UpperCase[k] = c]
                      [] OTHER -> c
            IN  [i \in 1..Len(t) |-> lower[t[i]]]
    IN  lowered[s]

\* \w of a regular expression: letters, digits and the underscore
WordChars ==
    {UpperCase[k] : k \in 1..Len(UpperCase)}
      \cup {LowerCase[k] : k \in 1..Len(LowerCase)}
      \cup {"0", "1", "2", "3", "4", "5", "6", "7", "8", "9", "_"}

\* \s of a regular expression
SpaceChars == {" ", "\t", "\n", "\r"}

SPAM      == <<"[Gmail]", "/", "Spam">>
DRAFTS    == <<"[Gmail]", "/", "Drafts">>
STARRED   == <<"[Gmail]", "/", "Starred">>
IMPORTANT == <<"[Gmail]", "/", "Important">>
ALLMAIL   == <<"[Gmail]", "/", "All Mail">>

\* What folderMap inherits from Object.prototype under a lower-case name:
\* folderMap['constructor'] is the function Object, folderMap['__proto__']
\* is Object.prototype. Neither is a string; both are truthy.
ObjectFunction  == <<"function Object() { [native code] }">>
ObjectPrototype == <<"[object Object]">>

\* folderMap[folderName] || 'INBOX'
folderMap(name) ==
    CASE name = <<"i", "n", "b", "o", "x">> -> INBOX
      [] name = <<"s", "e", "n", "t">> -> SENT
      [] name = <<"t", "r", "a", "s", "h">> -> TRASH
      [] name = <<"b", "i", "n">> -> BIN
      [] name = <<"s", "p", "a", "m">> -> SPAM
      [] name = <<"d", "r", "a", "f", "t", "s">> -> DRAFTS
      [] name = <<"s", "t", "a", "r", "r", "e", "d">> -> STARRED
      [] name = <<"i", "m", "p", "o", "r", "t", "a", "n", "t">> -> IMPORTANT
      [] name = <<"a", "l", "l">> -> ALLMAIL
      [] name = <<"c", "o", "n", "s", "t", "r", "u", "c", "t", "o", "r">>
            -> ObjectFunction
      [] name = <<"_", "_", "p", "r", "o", "t", "o", "_", "_">>
            -> ObjectPrototype
      [] OTHER -> INBOX

\* Whether /in:\w+/i matches s at position i.
matchesAt(s, i) ==
    /\ Len(s) >= i + 3
    /\ toLowerCase(<<s[i], s[i + 1]>>) = <<"i", "n">>
    /\ s[i + 2] = ":"
    /\ s[i + 3] \in WordChars

\* Where the longest run of characters of class that starts at position i of
\* s ends: the position after it (a greedy \w+, \s*).
RECURSIVE run(_, _, _)
run(s, i, class) ==
    IF i <= Len(s) /\ s[i] \in class THEN run(s, i + 1, class) ELSE i

\* query.match(/in:(\w+)/i), scanning from position i: the leftmost match;
\* group is folderMatch[1]
RECURSIVE match(_, _)
match(query, i) ==
    IF i > Len(query) THEN [found |-> FALSE, group |-> <<>>]
    ELSE IF matchesAt(query, i)
    THEN [found |-> TRUE,
          group |-> SubSeq(query, i + 3, run(query, i + 3, WordChars) - 1)]
    ELSE match(query, i + 1)

\* query.replace(/in:\w+\s*/gi, ''), scanning from position i: every match,
\* left to right, removed
RECURSIVE replace(_, _)
replace(query, i) ==
    IF i > Len(query) THEN <<>>
    ELSE IF matchesAt(query, i)
    THEN replace(query, run(query, run(query, i + 3, WordChars), SpaceChars))
    ELSE <<query[i]>> \o replace(query, i + 1)

\* String.prototype.trim()
trimSpace(s) ==
    LET trimmed[t \in {s}] ==
            LET first == run(t, 1, SpaceChars)
                kept == {j \in first..Len(t) : t[j] \notin SpaceChars}
            IN  IF kept = {} THEN <<>>
                ELSE SubSeq(t, first, CHOOSE j \in kept : \A k \in kept : k <= j)
    IN  trimmed[s]

\* the query is looked at once, as the value it has at the call
parseSearchQuery(query) ==
    LET parsed[q \in {query}] ==
            LET folderMatch == match(q, 1)
            IN  IF folderMatch.found
                THEN [folder |-> folderMap(toLowerCase(folderMatch.group)),
                      searchTerms |-> trimSpace(replace(q, 1))]
                ELSE [folder |-> INBOX, searchTerms |-> q]
    IN  parsed[query]

\* labelName.split('/').pop(), as the parts after the last "/"
RECURSIVE leafOf(_)
leafOf(path) ==
    IF path = <<>> THEN <<>>
    ELSE IF Last(path) = "/" THEN <<>>
    ELSE leafOf(SubSeq(path, 1, Len(path) - 1)) \o <<Last(path)>>

\* const leafName = labelName.split('/').pop() || labelName;
\* const destination = `${newParentLabel}/${leafName}`;
moveLabelDestination(labelName, newParentLabel) ==
    LET popped == leafOf(labelName)
        leafName == IF popped # <<>> THEN popped ELSE labelName
    IN  newParentLabel \o <<"/">> \o leafName

\* A mailbox tree is the sequence (in key order) of its nodes
\* [name, delimiter ("" when the server reports none), children].
\* Faulty variant of parseMailboxes: every path is joined with "/".
RECURSIVE parseMailboxes_slash(_, _)
parseMailboxes_slash(boxes, parent) ==
    IF boxes = <<>> THEN <<>>
    ELSE LET box == Head(boxes)
             fullPath == IF parent # <<>>
                         THEN parent \o <<"/", box.name>>
                         ELSE <<box.name>>
         IN  <<fullPath>>
             \o (IF box.children # <<>>
                 THEN parseMailboxes_slash(box.children, fullPath) ELSE <<>>)
             \o parseMailboxes_slash(Tail(boxes), parent)

\* Faulty variant of parseMailboxes: the children are parsed under the
\* parent's parent.
RECURSIVE parseMailboxes_flat(_, _)
parseMailboxes_flat(boxes, parent) ==
    IF boxes = <<>> THEN <<>>
    ELSE LET box == Head(boxes)
             delimiter == IF box.delimiter # "" THEN box.delimiter ELSE "/"
             fullPath == IF parent # <<>>
                         THEN parent \o <<delimiter, box.name>>
                         ELSE <<box.name>>
         IN  <<fullPath>>
             \o (IF box.children # <<>>
                 THEN parseMailboxes_flat(box.children, parent) ELSE <<>>)
             \o parseMailboxes_flat(Tail(boxes), parent)

RECURSIVE parseMailboxes(_, _)
parseMailboxes(boxes, parent) ==
    IF boxes = <<>> THEN <<>>
    ELSE LET box == Head(boxes)
             delimiter == IF box.delimiter # "" THEN box.delimiter ELSE "/"
             fullPath == IF parent # <<>>
                         THEN parent \o <<delimiter, box.name>>
                         ELSE <<box.name>>
         IN  <<fullPath>>
             \o (IF box.children # <<>>
                 THEN parseMailboxes(box.children, fullPath) ELSE <<>>)
             \o parseMailboxes(Tail(boxes), parent)

\* ---------------------------------------------------------- parseHeader
\* A string is the sequence of its characters; a character is written as a
\* one-character string, and a run of characters that holds no colon, comma,
\* blank or line break may be written as one word ("Subject", "a@x").
CRLF == "\r\n"

\* String.prototype.split(sep): the pieces between the separators, always at
\* least one piece.
RECURSIVE split(_, _)
split(s, sep) ==
    IF s = <<>> THEN << <<>> >>
    ELSE LET init == split(SubSeq(s, 1, Len(s) - 1), sep)
         IN  IF Last(s) = sep THEN Append(init, <<>>)
             ELSE [init EXCEPT ![Len(init)] = Append(@, Last(s))]

\* Array.prototype.join(sep)
RECURSIVE join(_, _)
join(parts, sep) ==
    IF parts = <<>> THEN <<>>
    ELSE IF Len(parts) = 1 THEN parts[1]
    ELSE parts[1] \o <<sep>> \o join(Tail(parts), sep)

\* String.prototype.trim()
RECURSIVE trim(_)
trim(s) ==
    IF s = <<>> THEN <<>>
    ELSE IF Head(s) = " " THEN trim(Tail(s))
    ELSE IF Last(s) = " " THEN trim(SubSeq(s, 1, Len(s) - 1))
    ELSE s

\* lines.forEach(line => { if (line.includes(':')) headers[key] = value }):
\* the assignments in order, as [key, value] pairs
headersOf(lines) ==
    LET withColon == SelectSeq(lines, LAMBDA line :
                         \E i \in 1..Len(line) : line[i] = ":")
    IN  [i \in 1..Len(withColon) |->
            LET parts == split(withColon[i], ":")
            IN  [key |-> trim(toLowerCase(parts[1])),
                 value |-> trim(join(Tail(parts), ":"))]]

\* headers[name]: the value assigned last; the empty string stands for
\* undefined as well, both being falsy wherever parseHeader reads a header
headerOf(headers, name) ==
    LET at == {i \in 1..Len(headers) : headers[i].key = <<name>>}
    IN  IF at = {} THEN <<>>
        ELSE headers[CHOOSE i \in at : \A j \in at : j <= i].value

\* The attribute block of a fetched item: uid (hasUid FALSE: none), and date,
\* which node-imap builds with new Date(INTERNALDATE): absent ("none"), a
\* valid Date of time t ("valid"), an Invalid Date ("invalid"), or a value
\* without a toISOString method ("other").
Attrs(hasUid, uid, kind, t) ==
    [hasUid |-> hasUid, uid |-> uid, date |-> [kind |-> kind, t |-> t]]

\* Number.prototype.toString(): the decimal numeral of a (small) uid
toString(n) == <<n>>

\* Date.prototype.toISOString() / new Date(isoString).getTime()
toISOString(t) == [iso |-> t]

getTime(date) == date.iso

\* attrs.date.toISOString() throws RangeError on an Invalid Date
parseHeaderThrows(attrs) == attrs.date.kind = "invalid"

\* The Message parseHeader returns when it does not throw; now is the clock
\* reading of new Date().
parseHeader(header, attrs, now) ==
    LET lines == split(header, CRLF)
        headers == headersOf(lines)
        to == headerOf(headers, "to")
        subject == headerOf(headers, "subject")
        from == headerOf(headers, "from")
        trimmed == [i \in 1..Len(split(to, ",")) |-> trim(split(to, ",")[i])]
        toField == IF to # <<>>
                   THEN SelectSeq(trimmed, LAMBDA address : address # <<>>)
                   ELSE <<>>
        id == IF attrs.hasUid THEN toString(attrs.uid) ELSE <<>>
        shown == IF subject # <<>> THEN subject ELSE <<"(No Subject)">>
    IN  [id |-> id,
         threadId |-> id,
         subject |-> shown,
         from |-> from,
         to |-> IF Len(toField) > 0 THEN toField ELSE <<to>>,
         date |-> IF attrs.date.kind = "valid"
                  THEN toISOString(attrs.date.t) ELSE toISOString(now),
         snippet |-> shown \o <<" ", "-", " ">>
                       \o (IF from # <<>> THEN from ELSE <<"Unknown sender">>),
         labels |-> <<INBOX>>]

\* messages.sort((a, b) => new Date(b.date) - new Date(a.date)): a stable
\* sort, newest first.
\* Faulty variant of insertByDate: a message goes before those of its own date.
RECURSIVE insertByDate_unstable(_, _)
insertByDate_unstable(sorted, m) ==
    IF sorted = <<>> THEN <<m>>
    ELSE IF getTime(Last(sorted).date) > getTime(m.date)
    THEN Append(sorted, m)
    ELSE Append(insertByDate_unstable(SubSeq(sorted, 1, Len(sorted) - 1), m),
                Last(sorted))

RECURSIVE insertByDate(_, _)
insertByDate(sorted, m) ==
    IF sorted = <<>> THEN <<m>>
    ELSE IF getTime(Last(sorted).date) >= getTime(m.date)
    THEN Append(sorted, m)
    ELSE Append(insertByDate(SubSeq(sorted, 1, Len(sorted) - 1), m),
                Last(sorted))

RECURSIVE sortNewestFirst(_)
sortNewestFirst(messages) ==
    IF messages = <<>> THEN <<>>
    ELSE insertByDate(sortNewestFirst(SubSeq(messages, 1, Len(messages) - 1)),
                      Last(messages))


\* ------------------------------------------------------------ result values
MessagesResult(messages) ==
    [NoResult EXCEPT !.success = TRUE, !.messages = messages]

SearchResultOf(messages, totalCount, query) ==
    [NoResult EXCEPT !.success = TRUE, !.messages = messages,
                     !.totalCount = totalCount, !.query = query]

CountResult(n) == [NoResult EXCEPT !.success = TRUE, !.n = n]

LabelsResult(labels) == [NoResult EXCEPT !.success = TRUE, !.labels = labels]

SuccessResult == [NoResult EXCEPT !.success = TRUE]

\* ------------------------------------------------------------ fetchMessages
\* .then(resolve) / .then(messages => resolve({...})) of the caller
fetchThen(w, o, messages) ==
    IF w.ops[o].kind = "searchMessages"
    THEN succeed(w, o, SearchResultOf(messages, w.ops[o].matches,
                                      w.ops[o].args.query))
    ELSE succeed(w, o, MessagesResult(messages))

\* .catch(reject) of the caller
fetchCatch(w, o, err) == fail(w, o, err)

fetchResolve(w, o, messages) ==
    IF w.ops[o].fetch.promise = "pending"
    THEN fetchThen([w EXCEPT !.ops[o].fetch.promise = "resolved"], o, messages)
    ELSE w

fetchReject(w, o, err) ==
    IF w.ops[o].fetch.promise = "pending"
    THEN fetchCatch([w EXCEPT !.ops[o].fetch.promise = "rejected"], o, err)
    ELSE w

\* Faulty variant of fetchMessages: an empty list is fetched like any other.
fetchMessages_noShortCircuit(w, o, source, isSequence) ==
    LET want == IF isSequence THEN source[2] - source[1] + 1 ELSE Len(source)
        w1 == [w EXCEPT !.ops[o].fetch =
                 [promise |-> "pending", want |-> want, seen |-> 0,
                  errored |-> FALSE, items |-> <<>>, messages |-> <<>>]]
    IN  issue(w1, o, Cmd("fetch", <<>>, FALSE, source,
                         <<IF isSequence THEN "seq" ELSE "uid">>,
                         <<>>, "fetch"))

\* source is <<start, total>> for a sequence range, else the identifier list
fetchMessages(w, o, source, isSequence) ==
    LET want == IF isSequence THEN source[2] - source[1] + 1 ELSE Len(source)
        w1 == [w EXCEPT !.ops[o].fetch =
                 [promise |-> "pending", want |-> want, seen |-> 0,
                  errored |-> FALSE, items |-> <<>>, messages |-> <<>>]]
    IN  IF ~isSequence /\ source = <<>>
        THEN fetchResolve(w1, o, <<>>)
        ELSE issue(w1, o, Cmd("fetch", <<>>, FALSE, source,
                              <<IF isSequence THEN "seq" ELSE "uid">>,
                              <<>>, "fetch"))

\* fetch.on('message'): a new item with its own header and attributes
\* variables; its three handlers are registered
NoAttrs == Attrs(FALSE, 0, "none", 0)

NewItem ==
    [header |-> <<>>, hasAttributes |-> FALSE, attributes |-> NoAttrs,
     ended |-> FALSE]

fetch_onMessage(w, o) ==
    [w EXCEPT !.ops[o].fetch.seen = @ + 1,
              !.ops[o].fetch.items = Append(@, NewItem)]

\* Faulty variant of msg_onData: header is one variable of the whole fetch
\* and not one per 'message' event, so every chunk lands in the first item.
msg_onData_shared(w, o, i, chunk) ==
    [w EXCEPT !.ops[o].fetch.items[1].header = @ \o chunk]

\* stream.on('data'): header += chunk.toString('ascii'); the chunks of the
\* model are ASCII text already
msg_onData(w, o, i, chunk) ==
    [w EXCEPT !.ops[o].fetch.items[i].header = @ \o chunk]

\* msg.once('attributes'): attributes = attrs (the first such event only)
msg_onAttributes(w, o, i, attrs) ==
    IF w.ops[o].fetch.items[i].hasAttributes THEN w
    ELSE [w EXCEPT !.ops[o].fetch.items[i].hasAttributes = TRUE,
                   !.ops[o].fetch.items[i].attributes = attrs]

\* msg.once('end'): if (attributes) try { messages.push(parseHeader(...)) }
\* catch { console.error(...) }
msg_onEnd(w, o, i, now) ==
    LET item == w.ops[o].fetch.items[i]
        w1 == [w EXCEPT !.ops[o].fetch.items[i].ended = TRUE]
    IN  IF item.ended \/ ~item.hasAttributes THEN w1
        ELSE IF parseHeaderThrows(item.attributes)
        THEN Log(w1, o, [e |-> "parseError", item |-> i])
        ELSE [w1 EXCEPT !.ops[o].fetch.messages =
                Append(@, parseHeader(item.header, item.attributes, now))]

\* The header block of an ordinary message.
TypicalHeader ==
    <<"Subject", ":", " ", "Hi", CRLF, "From", ":", " ", "a@x", CRLF,
      "To", ":", " ", "b@x", CRLF, CRLF>>

\* The whole of one fetched item in one step: its message event, its header
\* in one chunk, its attributes (uid as requested, receipt time date) unless
\* they never arrive, and its end.
fetch_onMessageEnd(w, o, rec, hasAttrs, date) ==
    LET n == w.ops[o].fetch.seen + 1
        uid == IF rec.text = <<"seq">> THEN rec.ids[1] + n - 1 ELSE rec.ids[n]
        w1 == fetch_onMessage(w, o)
        i == Len(w1.ops[o].fetch.items)
        w2 == msg_onData(w1, o, i, TypicalHeader)
        w3 == IF hasAttrs
              THEN msg_onAttributes(w2, o, i, Attrs(TRUE, uid, "valid", date))
              ELSE w2
    IN  msg_onEnd(w3, o, i, date)

\* The same for each of the next n items of the fetch: item j runs the
\* handlers with j - 1 items before it
fetch_onMessageEndTimes(w, o, rec, hasAttrs, date, n) ==
    LET seen == w.ops[o].fetch.seen
        after(j) ==
            fetch_onMessageEnd(
                [w EXCEPT !.ops[o].fetch.seen = seen + j - 1,
                          !.ops[o].fetch.items = <<>>,
                          !.ops[o].fetch.messages = <<>>],
                o, rec, hasAttrs, date).ops[o].fetch
    IN  [w EXCEPT !.ops[o].fetch.seen = seen + n,
                  !.ops[o].fetch.items = @ \o [j \in 1..n |-> after(j).items[1]],
                  !.ops[o].fetch.messages =
                      IF hasAttrs THEN @ \o [j \in 1..n |-> after(j).messages[1]]
                      ELSE @]

\* fetch.once('error')
\* Faulty variant of fetch_onError: the error is noted but the fetch is left
\* to its end event.
fetch_onError_swallowed(w, o, err) ==
    Log([w EXCEPT !.ops[o].fetch.errored = TRUE], o,
        [e |-> "fetchError", err |-> err])

fetch_onError(w, o, err) ==
    fetchReject(Log([w EXCEPT !.ops[o].fetch.errored = TRUE], o,
                    [e |-> "fetchError", err |-> err]), o, err)

\* fetch.once('end')
fetch_onEnd(w, o) ==
    LET sorted == sortNewestFirst(w.ops[o].fetch.messages)
    IN  fetchResolve([w EXCEPT !.ops[o].fetch.messages = sorted], o, sorted)

\* ------------------------------------------------------------- listMessages
listMessages(w, o) ==
    issue(w, o, Cmd("openBox", INBOX, TRUE, <<>>, <<>>, <<>>,
                    "listMessages.openBox"))

\* Faulty variant of listMessages_onOpenBox: the start of the range is not
\* clamped to 1.
listMessages_onOpenBox_unclamped(w, o, err, total) ==
    IF err # NoErr THEN fail(w, o, err)
    ELSE IF total = 0 THEN succeed(w, o, MessagesResult(<<>>))
    ELSE LET start == total - w.ops[o].args.count + 1
         IN  fetchMessages(w, o, <<start, total>>, TRUE)

listMessages_onOpenBox(w, o, err, total) ==
    IF err # NoErr THEN fail(w, o, err)
    ELSE IF total = 0 THEN succeed(w, o, MessagesResult(<<>>))
    ELSE LET start == Max(1, total - w.ops[o].args.count + 1)
         IN  fetchMessages(w, o, <<start, total>>, TRUE)

\* ----------------------------------------------------------- searchMessages
\* Faulty variant of performSearch: a text search whatever the terms.
performSearch_alwaysText(w, o) ==
    LET searchTerms == w.ops[o].parsed.searchTerms
    IN  issue(w, o, Cmd("search", <<>>, FALSE, <<>>,
                        <<"ALL", "TEXT">> \o searchTerms, <<>>,
                        "performSearch.search"))

performSearch(w, o) ==
    LET searchTerms == w.ops[o].parsed.searchTerms
        searchCriteria == IF searchTerms # <<>>
                          THEN <<"ALL", "TEXT">> \o searchTerms
                          ELSE <<"ALL">>
    IN  issue(w, o, Cmd("search", <<>>, FALSE, <<>>, searchCriteria, <<>>,
                        "performSearch.search"))

\* Faulty variant of performSearch_onSearch: every matched identifier is fetched.
performSearch_onSearch_uncapped(w, o, err, results) ==
    IF err # NoErr THEN fail(w, o, err)
    ELSE IF ~results.defined \/ Len(results.ids) = 0
    THEN succeed(w, o, SearchResultOf(<<>>, 0, w.ops[o].args.query))
    ELSE fetchMessages([w EXCEPT !.ops[o].matches = Len(results.ids)],
                       o, results.ids, FALSE)

\* Faulty variant of performSearch_onSearch: no matches is reported as a failure.
performSearch_onSearch_emptyFails(w, o, err, results) ==
    IF err # NoErr THEN fail(w, o, err)
    ELSE IF ~results.defined \/ Len(results.ids) = 0
    THEN fail(w, o, Err("empty"))
    ELSE LET limitedResults ==
                 SubSeq(results.ids, 1, Min(Len(results.ids), SearchLimit))
         IN  fetchMessages([w EXCEPT !.ops[o].matches = Len(results.ids)],
                           o, limitedResults, FALSE)

\* results is what the callback received: [defined |-> FALSE] when the
\* library passed no list, else the list of matched identifiers.
performSearch_onSearch(w, o, err, results) ==
    IF err # NoErr THEN fail(w, o, err)
    ELSE IF ~results.defined \/ Len(results.ids) = 0
    THEN succeed(w, o, SearchResultOf(<<>>, 0, w.ops[o].args.query))
    ELSE LET limitedResults ==
                 SubSeq(results.ids, 1, Min(Len(results.ids), SearchLimit))
         IN  fetchMessages([w EXCEPT !.ops[o].matches = Len(results.ids)],
                           o, limitedResults, FALSE)

searchMessages(w, o) ==
    LET parsed == parseSearchQuery(w.ops[o].args.query)
    IN  issue([w EXCEPT !.ops[o].parsed = parsed], o,
              Cmd("openBox", parsed.folder, TRUE, <<>>, <<>>, <<>>,
                  "searchMessages.openBox"))

OpenFailed(folder, err) ==
    [isError |-> TRUE, msg |-> <<"Failed to open folder", folder, err.msg>>]

\* Faulty variant of searchMessages_onOpenBox: no retry against Bin.
searchMessages_onOpenBox_noRetry(w, o, err) ==
    LET folder == w.ops[o].parsed.folder
    IN  IF err # NoErr
        THEN fail(w, o, OpenFailed(folder, err))
        ELSE performSearch(w, o)

\* Faulty variant of searchMessages_onOpenBox: the fallback mailbox is opened
\* read-write.
searchMessages_onOpenBox_writable(w, o, err) ==
    LET folder == w.ops[o].parsed.folder
    IN  IF err # NoErr
        THEN IF folder = TRASH
             THEN issue([w EXCEPT !.ops[o].openErr = err], o,
                        Cmd("openBox", BIN, FALSE, <<>>, <<>>, <<>>,
                            "searchMessages.openBin"))
             ELSE fail(w, o, OpenFailed(folder, err))
        ELSE performSearch(w, o)

searchMessages_onOpenBox(w, o, err) ==
    LET folder == w.ops[o].parsed.folder
    IN  IF err # NoErr
        THEN IF folder = TRASH
             THEN issue([w EXCEPT !.ops[o].openErr = err], o,
                        Cmd("openBox", BIN, TRUE, <<>>, <<>>, <<>>,
                            "searchMessages.openBin"))
             ELSE fail(w, o, OpenFailed(folder, err))
        ELSE performSearch(w, o)

searchMessages_onOpenBin(w, o, binErr) ==
    LET folder == w.ops[o].parsed.folder
    IN  IF binErr # NoErr
        THEN fail(w, o, OpenFailed(folder, w.ops[o].openErr))
        ELSE performSearch(w, o)

\* ------------------------------------------------------- listUnreadMessages
listUnreadMessages(w, o) ==
    issue(w, o, Cmd("openBox", INBOX, TRUE, <<>>, <<>>, <<>>,
                    "listUnreadMessages.openBox"))

listUnreadMessages_onOpenBox(w, o, err) ==
    IF err # NoErr THEN fail(w, o, err)
    ELSE issue(w, o, Cmd("search", <<>>, FALSE, <<>>, <<"UNSEEN">>, <<>>,
                         "listUnreadMessages.search"))

\* Faulty variant of listUnreadMessages_onSearch: the first `count`
\* identifiers are taken.
listUnreadMessages_onSearch_first(w, o, err, results) ==
    IF err # NoErr THEN fail(w, o, err)
    ELSE IF ~results.defined \/ Len(results.ids) = 0
    THEN succeed(w, o, MessagesResult(<<>>))
    ELSE LET n == Len(results.ids)
             count == w.ops[o].args.count
             limitedResults == SubSeq(results.ids, 1, Min(n, count))
         IN  fetchMessages(w, o, limitedResults, FALSE)

listUnreadMessages_onSearch(w, o, err, results) ==
    IF err # NoErr THEN fail(w, o, err)
    ELSE IF ~results.defined \/ Len(results.ids) = 0
    THEN succeed(w, o, MessagesResult(<<>>))
    ELSE LET n == Len(results.ids)
             count == w.ops[o].args.count
             limitedResults == SubSeq(results.ids, Max(1, n - count + 1), n)
         IN  fetchMessages(w, o, limitedResults, FALSE)


\* ------------------------------------------------------- markMessagesAsRead
markMessagesAsRead(w, o) ==
    issue(w, o, Cmd("openBox", INBOX, FALSE, <<>>, <<>>, <<>>,
                    "markMessagesAsRead.openBox"))

markMessagesAsRead_onOpenBox(w, o, err) ==
    IF err # NoErr THEN fail(w, o, err)
    ELSE issue(w, o, Cmd("addFlags", <<>>, FALSE, w.ops[o].args.ids,
                         <<"\\Seen">>, <<>>, "markMessagesAsRead.addFlags"))

\* Faulty variant of markMessagesAsRead_onAddFlags: success is reported
\* without waiting for the mailbox to close.
markMessagesAsRead_onAddFlags_early(w, o, err) ==
    IF err # NoErr THEN fail(w, o, err)
    ELSE succeed(issue(w, o, Cmd("closeBox", <<>>, FALSE, <<>>, <<"false">>,
                                 <<>>, "markMessagesAsRead.closeBox")),
                 o, CountResult(Len(w.ops[o].args.ids)))

\* closeBox(false, cb): the text of a closeBox command is its autoExpunge
\* argument
markMessagesAsRead_onAddFlags(w, o, err) ==
    IF err # NoErr THEN fail(w, o, err)
    ELSE issue(w, o, Cmd("closeBox", <<>>, FALSE, <<>>, <<"false">>, <<>>,
                         "markMessagesAsRead.closeBox"))

\* the closeBox callback takes no error parameter
markMessagesAsRead_onCloseBox(w, o, err) ==
    succeed(w, o, CountResult(Len(w.ops[o].args.ids)))

\* ----------------------------------------------------------- deleteMessages
deleteMessages(w, o) ==
    issue(w, o, Cmd("openBox", INBOX, FALSE, <<>>, <<>>, <<>>,
                    "deleteMessages.openBox"))

tryMove(w, o, dest, k) ==
    issue(w, o, Cmd("move", dest, FALSE, w.ops[o].args.ids, <<>>, <<>>, k))

deleteMessages_onOpenBox(w, o, err) ==
    IF err # NoErr THEN fail(w, o, err)
    ELSE tryMove(w, o, TRASH, "deleteMessages.moveTrash")

\* imap.closeBox(false, ...)
deleteMessages_finish(w, o) ==
    issue(w, o, Cmd("closeBox", <<>>, FALSE, <<>>, <<"false">>, <<>>,
                    "deleteMessages.closeBox"))

\* Faulty variant of deleteMessages_onMoveTrash: a failed Trash move fails the
\* operation at once.
deleteMessages_onMoveTrash_noFallback(w, o, err) ==
    IF err # NoErr THEN fail(w, o, err)
    ELSE deleteMessages_finish(w, o)

deleteMessages_onMoveTrash(w, o, err) ==
    IF err # NoErr THEN tryMove(w, o, BIN, "deleteMessages.moveBin")
    ELSE deleteMessages_finish(w, o)

\* Faulty variant of deleteMessages_onMoveBin: a failed Bin move is dropped silently.
deleteMessages_onMoveBin_silent(w, o, binErr) ==
    IF binErr # NoErr THEN w
    ELSE deleteMessages_finish(w, o)

deleteMessages_onMoveBin(w, o, binErr) ==
    IF binErr # NoErr THEN fail(w, o, binErr)
    ELSE deleteMessages_finish(w, o)

deleteMessages_onCloseBox(w, o, err) ==
    succeed(w, o, CountResult(Len(w.ops[o].args.ids)))

\* --------------------------------------------------------------- listLabels
listLabels(w, o) ==
    issue(w, o, Cmd("getBoxes", <<>>, FALSE, <<>>, <<>>, <<>>,
                    "listLabels.getBoxes"))

listLabels_onGetBoxes(w, o, err, boxes) ==
    IF err # NoErr THEN fail(w, o, err)
    ELSE succeed(w, o, LabelsResult(parseMailboxes(boxes, <<>>)))

\* ------------------------------------- createLabel, deleteLabel, renameLabel
createLabel(w, o) ==
    issue(w, o, Cmd("addBox", w.ops[o].args.box, FALSE, <<>>, <<>>, <<>>,
                    "createLabel.addBox"))

deleteLabel(w, o) ==
    issue(w, o, Cmd("delBox", w.ops[o].args.box, FALSE, <<>>, <<>>, <<>>,
                    "deleteLabel.delBox"))

\* Faulty variant of renameLabel: the two names are passed in the wrong order.
renameLabel_swapped(w, o) ==
    issue(w, o, Cmd("renameBox", w.ops[o].args.to, FALSE, <<>>, <<>>,
                    w.ops[o].args.box, "renameLabel.renameBox"))

renameLabel(w, o) ==
    issue(w, o, Cmd("renameBox", w.ops[o].args.box, FALSE, <<>>, <<>>,
                    w.ops[o].args.to, "renameLabel.renameBox"))

\* if (err) return reject(err); resolve({success: true, ...})
onSimpleCallback(w, o, err) ==
    IF err # NoErr THEN fail(w, o, err)
    ELSE succeed(w, o, SuccessResult)

\* ---------------------------------------------------------------- moveLabel
moveLabel(w, o) ==
    LET destination ==
            moveLabelDestination(w.ops[o].args.box, w.ops[o].args.to)
    IN  issue(w, o, Cmd("renameBox", w.ops[o].args.box, FALSE, <<>>, <<>>,
                        destination, "moveLabel.renameBox"))

moveLabel_onRenameBox(w, o, err) ==
    IF err # NoErr THEN fail(w, o, err)
    ELSE succeed(w, o, LabelsResult(
            <<moveLabelDestination(w.ops[o].args.box, w.ops[o].args.to)>>))

\* ------------------------------------------------------------- labelMessage
labelMessage(w, o) ==
    issue(w, o, Cmd("openBox", INBOX, FALSE, <<>>, <<>>, <<>>,
                    "labelMessage.openBox"))

\* labels.map(label => new Promise(... imap.copy(messageId, label, cb)))
RECURSIVE copyEach(_, _, _)
copyEach(w, o, i) ==
    IF i > Len(w.ops[o].args.labels) THEN w
    ELSE copyEach(issue(w, o, Cmd("copy", w.ops[o].args.labels[i], FALSE,
                                  w.ops[o].args.ids, <<>>, <<>>,
                                  "labelMessage.copy")),
                  o, i + 1)

labelMessage_onOpenBox(w, o, err) ==
    IF err # NoErr THEN fail(w, o, err)
    ELSE copyEach([w EXCEPT !.ops[o].copies =
                     [promise |-> "pending",
                      left |-> Len(w.ops[o].args.labels)]], o, 1)

\* Faulty variant of labelMessage_onCopy: a failed copy counts as done.
labelMessage_onCopy_partial(w, o, err) ==
    IF w.ops[o].copies.promise # "pending" THEN w
    ELSE IF w.ops[o].copies.left = 1
    THEN succeed([w EXCEPT !.ops[o].copies =
                    [promise |-> "resolved", left |-> 0]], o, SuccessResult)
    ELSE [w EXCEPT !.ops[o].copies.left = @ - 1]

\* the copy callback settles its promise; Promise.all(copyPromises) rejects
\* with the first rejection and resolves when every copy has resolved
labelMessage_onCopy(w, o, err) ==
    IF w.ops[o].copies.promise # "pending" THEN w
    ELSE IF err # NoErr
    THEN fail([w EXCEPT !.ops[o].copies.promise = "rejected"], o, err)
    ELSE IF w.ops[o].copies.left = 1
    THEN succeed([w EXCEPT !.ops[o].copies =
                    [promise |-> "resolved", left |-> 0]], o, SuccessResult)
    ELSE [w EXCEPT !.ops[o].copies.left = @ - 1]

\* -------------------------------------------------------------- moveMessage
\* sourceFolder: string = 'INBOX': the default applies when the caller
\* passes no source folder (args.box empty)
sourceFolderOf(box) == IF box = <<>> THEN INBOX ELSE box

\* Faulty variant of moveMessage: the source folder is ignored.
moveMessage_inboxOnly(w, o) ==
    issue(w, o, Cmd("openBox", INBOX, FALSE, <<>>, <<>>, <<>>,
                    "moveMessage.openBox"))

moveMessage(w, o) ==
    issue(w, o, Cmd("openBox", sourceFolderOf(w.ops[o].args.box), FALSE,
                    <<>>, <<>>, <<>>, "moveMessage.openBox"))

\* Faulty variant of moveMessage_onOpenBox: a failed select is tried once more.
moveMessage_onOpenBox_retry(w, o, err) ==
    IF err # NoErr
    THEN IF w.conns[w.ops[o].imap].issued < 2
         THEN issue(w, o, Cmd("openBox", sourceFolderOf(w.ops[o].args.box),
                              FALSE, <<>>, <<>>, <<>>, "moveMessage.openBox"))
         ELSE fail(w, o, err)
    ELSE issue(w, o, Cmd("move", w.ops[o].args.to, FALSE, w.ops[o].args.ids,
                         <<>>, <<>>, "moveMessage.move"))

moveMessage_onOpenBox(w, o, err) ==
    IF err # NoErr THEN fail(w, o, err)
    ELSE issue(w, o, Cmd("move", w.ops[o].args.to, FALSE, w.ops[o].args.ids,
                         <<>>, <<>>, "moveMessage.move"))

\* ------------------------------------------------- the ready/error handlers
\* The synchronous part of the action each public method hands to
\* connectAndRun.
action(w, o) ==
    LET kind == w.ops[o].kind
        w1 == Log(w, o, [e |-> "action"])
    IN  CASE kind = "listMessages"       -> listMessages(w1, o)
          [] kind = "searchMessages"     -> searchMessages(w1, o)
          [] kind = "listUnreadMessages" -> listUnreadMessages(w1, o)
          [] kind = "markMessagesAsRead" -> markMessagesAsRead(w1, o)
          [] kind = "deleteMessages"     -> deleteMessages(w1, o)
          [] kind = "listLabels"         -> listLabels(w1, o)
          [] kind = "createLabel"        -> createLabel(w1, o)
          [] kind = "labelMessage"       -> labelMessage(w1, o)
          [] kind = "moveMessage"        -> moveMessage(w1, o)
          [] kind = "deleteLabel"        -> deleteLabel(w1, o)
          [] kind = "renameLabel"        -> renameLabel(w1, o)
          [] kind = "moveLabel"          -> moveLabel(w1, o)
          [] kind = "fetchMessages"      ->
                fetchMessages(w1, o, w.ops[o].args.ids, FALSE)

Thrown == Err("thrown")

\* Faulty variant of onReady: the catch block rejects without cleanup().
onReady_noCleanup(w, o, throws) ==
    IF throws
    THEN reject(Log(Log(w, o, [e |-> "action"]), o,
                    [e |-> "throw", err |-> Thrown]), o, Thrown)
    ELSE action(w, o)

\* imap.once('ready', () => { try { action(...) } catch (err) { cleanup();
\* reject(err); } }); throws: the action's first library call throws
onReady(w, o, throws) ==
    IF throws
    THEN reject(cleanup(Log(Log(w, o, [e |-> "action"]), o,
                            [e |-> "throw", err |-> Thrown]), o), o, Thrown)
    ELSE action(w, o)

\* Faulty variant of asError: the emitted value is passed on unwrapped.
asError_raw(err) == err

\* err instanceof Error ? err : new Error(String(err))
asError(err) == IF err.isError THEN err ELSE [isError |-> TRUE, msg |-> err.msg]

\* imap.once('error', (err) => { cleanup(); reject(...); })
onError(w, o, err) ==
    reject(cleanup(Log(w, o, [e |-> "onError", err |-> err]), o), o,
           asError(err))


\* ------------------------------------------------ what the caller may pass
IdLists == {[i \in 1..n |-> i] : n \in 1..MaxIds}

LabelPaths == {<<"Work">>, <<"Work", "/", "Project">>}

\* A nested label on a provider whose hierarchy delimiter is "." (the string
\* "Work.Project"; the host is configuration, not fixed to Gmail).
DottedPaths == {<<"Work", ".", "Project">>}

Queries ==
    {Word(<<"x">>),
     InTok(<<"t", "r", "a", "s", "h">>) \o <<" ">> \o Word(<<"x">>),
     InTok(<<"t", "r", "a", "s", "h">>),
     InTok(<<"b", "i", "n">>) \o <<" ">> \o Word(<<"x">>),
     InTok(<<"s", "e", "n", "t">>) \o <<" ">> \o Word(<<"x">>),
     InTok(<<"b", "o", "g", "u", "s">>) \o <<" ">> \o Word(<<"x">>)}

LabelLists ==
    UNION {[1..n -> LabelPaths] : n \in 1..MaxLabels}

ArgsOf(kind) ==
    CASE kind \in {"listMessages", "listUnreadMessages"} ->
            {[NoArgs EXCEPT !.count = c] : c \in 1..MaxCount}
      [] kind = "searchMessages" ->
            {[NoArgs EXCEPT !.query = q] : q \in Queries}
      [] kind \in {"markMessagesAsRead", "deleteMessages"} ->
            {[NoArgs EXCEPT !.ids = ids] : ids \in IdLists}
      [] kind = "listLabels" -> {NoArgs}
      [] kind \in {"createLabel", "deleteLabel"} ->
            {[NoArgs EXCEPT !.box = b] : b \in LabelPaths}
      [] kind = "renameLabel" ->
            {[NoArgs EXCEPT !.box = b, !.to = <<"Old">>] : b \in LabelPaths}
      [] kind = "moveLabel" ->
            {[NoArgs EXCEPT !.box = b, !.to = <<"Archive">>] :
                b \in LabelPaths \cup DottedPaths}
      [] kind = "labelMessage" ->
            {[NoArgs EXCEPT !.ids = <<1>>, !.labels = ls] : ls \in LabelLists}
      [] kind = "moveMessage" ->
            {[NoArgs EXCEPT !.ids = <<1>>, !.box = src, !.to = dst] :
                src \in {<<>>, <<"Work">>}, dst \in {TRASH, <<"Work">>}}

Kinds ==
    {"listMessages", "searchMessages", "listUnreadMessages",
     "markMessagesAsRead", "deleteMessages", "listLabels", "createLabel",
     "labelMessage", "moveMessage", "deleteLabel", "renameLabel", "moveLabel"}

\* ------------------------------------------- what the transport may deliver
CmdErrs == {NoErr, Err("server")}

ConnErrs == {Err("conn"), [isError |-> FALSE, msg |-> <<"conn">>]}

SearchResults == {[i \in 1..n |-> i] : n \in 0..MaxMatches}

\* The second argument of a search callback: no list at all (always so when
\* the command failed), or one of `lists`.
Undefined == [defined |-> FALSE, ids |-> <<>>]

Defined(ids) == [defined |-> TRUE, ids |-> ids]

ResultsOf(err, lists) ==
    IF err # NoErr THEN {Undefined}
    ELSE {Undefined} \cup {Defined(ids) : ids \in lists}

Node(name, delimiter, children) ==
    [name |-> name, delimiter |-> delimiter, children |-> children]

BoxTrees ==
    {<<>>,
     <<Node("INBOX", "/", <<>>),
       Node("Work", "/", <<Node("Project", "/", <<>>)>>)>>,
     <<Node("Work", ".", <<Node("Project", "", <<>>)>>)>>}

\* ------------------------------------------------------------------ actions
\* A caller invokes the public method `kind`: connectAndRun's executor runs.
Call(o, kind, args) ==
    /\ ops[o].kind = "none"
    /\ nextConn < NumOps
    /\ Commit(connectAndRun(
         [World EXCEPT !.ops[o].kind = kind, !.ops[o].args = args,
                       !.ops[o].promise = "pending"], o))

\* The transport signals readiness: at most once, and never after a
\* connection-level error that came first.
TransportReady(o) ==
    /\ ops[o].imap # 0
    /\ conns[ops[o].imap].state = "connecting"
    /\ o \in conns[ops[o].imap].readyH
    /\ \E throws \in BOOLEAN :
         Commit(onReady(
           [World EXCEPT !.conns[ops[o].imap].state = "ready",
                         !.conns[ops[o].imap].readyH = @ \ {o}], o, throws))

\* The transport signals a connection-level error, before or after
\* readiness, also after end() has been called.
TransportError(o) ==
    /\ ops[o].imap # 0
    /\ conns[ops[o].imap].state \in {"connecting", "ready"}
    /\ o \in conns[ops[o].imap].errorH
    /\ \E err \in ConnErrs :
         Commit(onError(
           [World EXCEPT !.conns[ops[o].imap].state =
                           IF @ = "connecting" THEN "failed" ELSE @,
                         !.conns[ops[o].imap].errorH = @ \ {o}], o, err))

\* One fetched item ends; the server attributed it a receipt date in `dates`,
\* or its attributes never arrived.
Fetch_onMessageEnd(o, dates) ==
    \E rec \in Pending(o, "fetch"), hasAttrs \in BOOLEAN, date \in dates :
        /\ ops[o].fetch.seen < ops[o].fetch.want
        /\ Commit(fetch_onMessageEnd(World, o, rec, hasAttrs, date))

Fetch_onError(o) ==
    \E rec \in Pending(o, "fetch") :
        /\ ~ops[o].fetch.errored
        /\ Commit(fetch_onError(World, o, Err("server")))

Fetch_onEnd(o) ==
    \E rec \in Pending(o, "fetch") :
        Commit(fetch_onEnd(complete(World, o, rec, NoErr), o))

ListMessages_onOpenBox(o) ==
    \E rec \in Pending(o, "listMessages.openBox"), err \in CmdErrs,
       total \in 0..MaxTotal :
        /\ err # NoErr => total = 0
        /\ Commit(listMessages_onOpenBox(
             opened(complete(World, o, rec, err), o, total), o, err, total))

SearchMessages_onOpenBox(o) ==
    \E rec \in Pending(o, "searchMessages.openBox"), err \in CmdErrs :
        Commit(searchMessages_onOpenBox(complete(World, o, rec, err), o, err))

SearchMessages_onOpenBin(o) ==
    \E rec \in Pending(o, "searchMessages.openBin"), err \in CmdErrs :
        Commit(searchMessages_onOpenBin(complete(World, o, rec, err), o, err))

PerformSearch_onSearch(o, resultSets) ==
    \E rec \in Pending(o, "performSearch.search"), err \in CmdErrs :
      \E results \in ResultsOf(err, resultSets) :
        /\ Commit(performSearch_onSearch(
             received(complete(World, o, rec, err), o, results),
             o, err, results))

ListUnreadMessages_onOpenBox(o) ==
    \E rec \in Pending(o, "listUnreadMessages.openBox"), err \in CmdErrs :
        Commit(listUnreadMessages_onOpenBox(complete(World, o, rec, err), o, err))

ListUnreadMessages_onSearch(o) ==
    \E rec \in Pending(o, "listUnreadMessages.search"), err \in CmdErrs :
      \E results \in ResultsOf(err, SearchResults) :
        /\ Commit(listUnreadMessages_onSearch(
             received(complete(World, o, rec, err), o, results),
             o, err, results))

MarkMessagesAsRead_onOpenBox(o) ==
    \E rec \in Pending(o, "markMessagesAsRead.openBox"), err \in CmdErrs :
        Commit(markMessagesAsRead_onOpenBox(complete(World, o, rec, err), o, err))

MarkMessagesAsRead_onAddFlags(o) ==
    \E rec \in Pending(o, "markMessagesAsRead.addFlags"), err \in CmdErrs :
        Commit(markMessagesAsRead_onAddFlags(complete(World, o, rec, err), o, err))

MarkMessagesAsRead_onCloseBox(o) ==
    \E rec \in Pending(o, "markMessagesAsRead.closeBox"), err \in CmdErrs :
        Commit(markMessagesAsRead_onCloseBox(complete(World, o, rec, err), o, err))

DeleteMessages_onOpenBox(o) ==
    \E rec \in Pending(o, "deleteMessages.openBox"), err \in CmdErrs :
        Commit(deleteMessages_onOpenBox(complete(World, o, rec, err), o, err))

DeleteMessages_onMoveTrash(o) ==
    \E rec \in Pending(o, "deleteMessages.moveTrash"), err \in CmdErrs :
        Commit(deleteMessages_onMoveTrash(complete(World, o, rec, err), o, err))

DeleteMessages_onMoveBin(o) ==
    \E rec \in Pending(o, "deleteMessages.moveBin"), err \in CmdErrs :
        Commit(deleteMessages_onMoveBin(complete(World, o, rec, err), o, err))

DeleteMessages_onCloseBox(o) ==
    \E rec \in Pending(o, "deleteMessages.closeBox"), err \in CmdErrs :
        Commit(deleteMessages_onCloseBox(complete(World, o, rec, err), o, err))

ListLabels_onGetBoxes(o) ==
    \E rec \in Pending(o, "listLabels.getBoxes"), err \in CmdErrs,
       boxes \in BoxTrees :
        Commit(listLabels_onGetBoxes(complete(World, o, rec, err), o, err, boxes))

CreateLabel_onAddBox(o) ==
    \E rec \in Pending(o, "createLabel.addBox"), err \in CmdErrs :
        Commit(onSimpleCallback(complete(World, o, rec, err), o, err))

DeleteLabel_onDelBox(o) ==
    \E rec \in Pending(o, "deleteLabel.delBox"), err \in CmdErrs :
        Commit(onSimpleCallback(complete(World, o, rec, err), o, err))

RenameLabel_onRenameBox(o) ==
    \E rec \in Pending(o, "renameLabel.renameBox"), err \in CmdErrs :
        Commit(onSimpleCallback(complete(World, o, rec, err), o, err))

MoveLabel_onRenameBox(o) ==
    \E rec \in Pending(o, "moveLabel.renameBox"), err \in CmdErrs :
        Commit(moveLabel_onRenameBox(complete(World, o, rec, err), o, err))

LabelMessage_onOpenBox(o) ==
    \E rec \in Pending(o, "labelMessage.openBox"), err \in CmdErrs :
        Commit(labelMessage_onOpenBox(complete(World, o, rec, err), o, err))

LabelMessage_onCopy(o) ==
    \E rec \in Pending(o, "labelMessage.copy"), err \in CmdErrs :
        Commit(labelMessage_onCopy(complete(World, o, rec, err), o, err))

MoveMessage_onOpenBox(o) ==
    \E rec \in Pending(o, "moveMessage.openBox"), err \in CmdErrs :
        Commit(moveMessage_onOpenBox(complete(World, o, rec, err), o, err))

MoveMessage_onMove(o) ==
    \E rec \in Pending(o, "moveMessage.move"), err \in CmdErrs :
        Commit(onSimpleCallback(complete(World, o, rec, err), o, err))

\* ------------------------------------------------------------ specification
\* One public operation, every kind, every transport behaviour.
CallAny == \E kind \in Kinds : \E args \in ArgsOf(kind) : Call(1, kind, args)

Transport(o, dates) ==
    \/ TransportReady(o)
    \/ TransportError(o)
    \/ Fetch_onMessageEnd(o, dates)
    \/ Fetch_onError(o)
    \/ Fetch_onEnd(o)
    \/ ListMessages_onOpenBox(o)
    \/ SearchMessages_onOpenBox(o)
    \/ SearchMessages_onOpenBin(o)
    \/ PerformSearch_onSearch(o, SearchResults)
    \/ ListUnreadMessages_onOpenBox(o)
    \/ ListUnreadMessages_onSearch(o)
    \/ MarkMessagesAsRead_onOpenBox(o)
    \/ MarkMessagesAsRead_onAddFlags(o)
    \/ MarkMessagesAsRead_onCloseBox(o)
    \/ DeleteMessages_onOpenBox(o)
    \/ DeleteMessages_onMoveTrash(o)
    \/ DeleteMessages_onMoveBin(o)
    \/ DeleteMessages_onCloseBox(o)
    \/ ListLabels_onGetBoxes(o)
    \/ CreateLabel_onAddBox(o)
    \/ DeleteLabel_onDelBox(o)
    \/ RenameLabel_onRenameBox(o)
    \/ MoveLabel_onRenameBox(o)
    \/ LabelMessage_onOpenBox(o)
    \/ LabelMessage_onCopy(o)
    \/ MoveMessage_onOpenBox(o)
    \/ MoveMessage_onMove(o)

Dates == 1..MaxDate

Next == CallAny \/ Transport(1, Dates)

Spec == Init /\ [][Next]_vars


\* Fairness assumed for liveness (C8): the transport eventually signals
\* ready or error, and every issued command eventually completes. A
\* connection-level error after readiness is never owed.
Connects(o) ==
    \/ TransportReady(o)
    \/ (/\ ops[o].imap # 0
        /\ conns[ops[o].imap].state = "connecting"
        /\ TransportError(o))

Completes(o) ==
    \/ Fetch_onEnd(o)
    \/ ListMessages_onOpenBox(o)
    \/ SearchMessages_onOpenBox(o)
    \/ SearchMessages_onOpenBin(o)
    \/ PerformSearch_onSearch(o, SearchResults)
    \/ ListUnreadMessages_onOpenBox(o)
    \/ ListUnreadMessages_onSearch(o)
    \/ MarkMessagesAsRead_onOpenBox(o)
    \/ MarkMessagesAsRead_onAddFlags(o)
    \/ MarkMessagesAsRead_onCloseBox(o)
    \/ DeleteMessages_onOpenBox(o)
    \/ DeleteMessages_onMoveTrash(o)
    \/ DeleteMessages_onMoveBin(o)
    \/ DeleteMessages_onCloseBox(o)
    \/ ListLabels_onGetBoxes(o)
    \/ CreateLabel_onAddBox(o)
    \/ DeleteLabel_onDelBox(o)
    \/ RenameLabel_onRenameBox(o)
    \/ MoveLabel_onRenameBox(o)
    \/ LabelMessage_onOpenBox(o)
    \/ LabelMessage_onCopy(o)
    \/ MoveMessage_onOpenBox(o)
    \/ MoveMessage_onMove(o)

\* Whether an operation concludes does not depend on the receipt dates of
\* the fetched messages: the fair specification fixes them.
NextLive == CallAny \/ Transport(1, {1})

SpecLive ==
    Init /\ [][NextLive]_vars /\ WF_vars(Connects(1)) /\ WF_vars(Completes(1))

\* The Fetch Pipeline event by event. fetchMessages is private: the call
\* "fetchMessages" stands for a caller that hands it an explicit identifier
\* list on a ready connection and passes its outcome on, as
\* listUnreadMessages does (lines 294-296), the empty list included.
MaxItems == 2

ItemLists == {[i \in 1..n |-> i] : n \in 0..MaxItems}

ShortHeader == <<"Subject", ":", "Hi", CRLF, "To", ":", "b@x">>

CallFetch ==
    \E ids \in ItemLists :
        Call(1, "fetchMessages", [NoArgs EXCEPT !.ids = ids])

OpenItems(o) ==
    {i \in 1..Len(ops[o].fetch.items) : ~ops[o].fetch.items[i].ended}

\* The server starts the next item; at most maxOpen items are under way.
Fetch_onMessage(o, maxOpen) ==
    \E rec \in Pending(o, "fetch") :
        /\ ops[o].fetch.seen < ops[o].fetch.want
        /\ Cardinality(OpenItems(o)) < maxOpen
        /\ Commit(fetch_onMessage(World, o))

\* The next chunk of an item's header block arrives: the rest of the block,
\* or its next line.
NextChunks(header, got) ==
    LET rest == SubSeq(header, Len(got) + 1, Len(header))
        line == split(rest, CRLF)[1] \o
                (IF Len(split(rest, CRLF)) > 1 THEN <<CRLF>> ELSE <<>>)
    IN  IF rest = <<>> THEN {} ELSE {rest, line}

Msg_onData(o, header) ==
    \E rec \in Pending(o, "fetch"), i \in OpenItems(o) :
      \E chunk \in NextChunks(header, ops[o].fetch.items[i].header) :
        Commit(msg_onData(World, o, i, chunk))

\* The attribute block of an item arrives: its uid, and a receipt date that
\* is absent, valid, invalid or not a Date.
DateKinds == {"none", "valid", "invalid", "other"}

Msg_onAttributes(o, dates) ==
    \E rec \in Pending(o, "fetch"), i \in OpenItems(o),
       kind \in DateKinds, t \in dates :
        /\ ~ops[o].fetch.items[i].hasAttributes
        /\ kind # "valid" => t = 1
        /\ Commit(msg_onAttributes(World, o, i,
                                   Attrs(TRUE, rec.ids[i], kind, t)))

\* An item ends while the clock reads now.
Msg_onEnd(o, nows) ==
    \E rec \in Pending(o, "fetch"), i \in OpenItems(o), now \in nows :
        Commit(msg_onEnd(World, o, i, now))

NextFetch ==
    \/ CallFetch
    \/ TransportReady(1)
    \/ TransportError(1)
    \/ Fetch_onMessage(1, 1)
    \/ Msg_onData(1, ShortHeader)
    \/ Msg_onAttributes(1, Dates)
    \/ Msg_onEnd(1, {MaxDate})
    \/ Fetch_onError(1)
    \/ Fetch_onEnd(1)

SpecFetch == Init /\ [][NextFetch]_vars

\* parseHeader on one fetched item, over header blocks of up to MaxLines
\* lines drawn from HeaderLines (lines without a colon, names in any case
\* and padded with blanks, values with further colons, recipient lists with
\* empty entries, an empty value, a repeated name, an empty line) and over
\* every attribute block: with or without uid, and a date that is absent,
\* valid, invalid or not a Date. The clock reads ParseTime, later than every
\* receipt date.
MaxLines == 2

HeaderLines ==
    { <<>>,
      <<"hello">>,
      <<"Subject", ":", " ", "Hi">>,
      <<" ", "SUBJECT", " ", ":", "Re", ":", " ", "a", ":", "b", " ">>,
      <<"From", ":", "a@x">>,
      <<"To", ":", " ", "b@x", ",", " ", ",", "c@x", " ">>,
      <<"TO", ":", " ", ",", " ">>,
      <<"To", ":">>,
      <<"X", ":", "From", ":", "z@x">> }

HeaderBlocks ==
    {join(lines, CRLF) :
        lines \in UNION {[1..n -> HeaderLines] : n \in 0..MaxLines}}

ParseTime == MaxDate + 1

CallParse == Call(1, "fetchMessages", [NoArgs EXCEPT !.ids = <<1>>])

\* The header block of an item arrives in one piece.
Msg_onHeader(o, blocks) ==
    \E rec \in Pending(o, "fetch"), i \in OpenItems(o), header \in blocks :
        /\ ops[o].fetch.items[i].header = <<>>
        /\ header # <<>>
        /\ Commit(msg_onData(World, o, i, header))

Msg_onAnyAttributes(o, dates) ==
    \E rec \in Pending(o, "fetch"), i \in OpenItems(o), hasUid \in BOOLEAN,
       kind \in DateKinds, t \in dates :
        /\ ~ops[o].fetch.items[i].hasAttributes
        /\ kind # "valid" => t = 1
        /\ Commit(msg_onAttributes(World, o, i,
                                   Attrs(hasUid, rec.ids[i], kind, t)))

NextParse ==
    \/ CallParse
    \/ TransportReady(1)
    \/ Fetch_onMessage(1, 1)
    \/ Msg_onHeader(1, HeaderBlocks)
    \/ Msg_onAnyAttributes(1, Dates)
    \/ Msg_onEnd(1, {ParseTime})
    \/ Fetch_onEnd(1)

SpecParse == Init /\ [][NextParse]_vars

\* parseMailboxes on the mailbox trees of up to MaxDepth levels in which, at
\* each level, a mailbox "A" may have children and may stand alone, before
\* or after a childless "B"; every mailbox reports "/", "." or no delimiter.
MaxDepth == 3

Delimiters == {"/", ".", ""}

RECURSIVE Trees(_)
Trees(depth) ==
    IF depth = 0 THEN {<<>>}
    ELSE {<<>>} \cup UNION {
            LET a == Node("A", d, children)
                b == Node("B", e, <<>>)
            IN  {<<a>>, <<a, b>>, <<b, a>>} :
            d \in Delimiters, e \in Delimiters \ {""},
            children \in Trees(depth - 1)}

\* (err, boxes) of the getBoxes callback, boxes noted for reference
gotBoxes(w, o, boxes) == Log(w, o, [e |-> "boxes", boxes |-> boxes])

CallLabels == Call(1, "listLabels", NoArgs)

ListLabels_onBoxes(o, trees) ==
    \E rec \in Pending(o, "listLabels.getBoxes"), boxes \in trees :
        Commit(listLabels_onGetBoxes(
                 gotBoxes(complete(World, o, rec, NoErr), o, boxes),
                 o, NoErr, boxes))

NextBoxes ==
    \/ CallLabels
    \/ TransportReady(1)
    \/ ListLabels_onBoxes(1, Trees(MaxDepth))

SpecBoxes == Init /\ [][NextBoxes]_vars

\* ------------------------------------------------ SmtpService.sendMessage
\* normalizeEmails: undefined for a falsy value, an array joined with ", ",
\* a string as it is
normalizeEmails(emails) ==
    IF emails.kind = "undefined" \/ (emails.kind = "string" /\ emails.str = <<>>)
    THEN NoValue
    ELSE IF emails.kind = "array" THEN Str(join(emails.list, ", "))
    ELSE emails

\* Faulty variant of sendMessage: cc and bcc are handed on as given.
sendMessage_raw(w, o) ==
    Log(w, o, [e |-> "sendMail", cc |-> w.ops[o].args.cc,
               bcc |-> w.ops[o].args.bcc])

\* try { mailOptions = {...}; info = await this.transporter.sendMail(...) }
sendMessage(w, o) ==
    Log(w, o, [e |-> "sendMail", cc |-> normalizeEmails(w.ops[o].args.cc),
               bcc |-> normalizeEmails(w.ops[o].args.bcc)])

\* return { messageId: info.messageId, success: true, message: ... }
sendMessage_onSent(w, o, messageId) ==
    resolve(w, o, [NoResult EXCEPT !.success = TRUE, !.messageId = messageId,
                                   !.message = <<"Email sent successfully">>])

\* Faulty variant of sendMessage_onFailed: the error is passed on.
sendMessage_onFailed_rethrow(w, o, error) == reject(w, o, error)

\* catch (error) { return { messageId: '', success: false, message: ... } }
sendMessage_onFailed(w, o, error) == resolve(w, o, SendFailed(error))

\* sendMessage with cc and bcc absent, a string, or an array of up to
\* MaxAddresses addresses; the transporter accepts the mail and reports an
\* identifier, refuses it with an Error, fails with a value that is no Error,
\* or throws when called.
MaxAddresses == 2

Addresses == {<<"a@x">>, <<"b@x">>}

AddressValues ==
    {NoValue, Str(<<>>), Str(<<"a@x">>)}
      \cup {Arr(l) : l \in UNION {[1..n -> Addresses] : n \in 0..MaxAddresses}}

SendErrs == {Err("smtp"), [isError |-> FALSE, msg |-> <<"smtp">>]}

CallSend(o) ==
    \E cc \in AddressValues, bcc \in AddressValues :
        /\ ops[o].kind = "none"
        /\ Commit(sendMessage(
             [World EXCEPT !.ops[o].kind = "sendMessage",
                           !.ops[o].args = [NoArgs EXCEPT !.cc = cc, !.bcc = bcc],
                           !.ops[o].promise = "pending"], o))

SendMail_throws(o) ==
    \E error \in SendErrs :
        /\ ops[o].kind = "none"
        /\ Commit(sendMessage_onFailed(sendMessage(
             [World EXCEPT !.ops[o].kind = "sendMessage",
                           !.ops[o].promise = "pending"], o), o, error))

SendMail_resolves(o) ==
    \E messageId \in {<<"<1@x>">>, <<"<2@x>">>} :
        /\ ops[o].kind = "sendMessage"
        /\ ops[o].promise = "pending"
        /\ Commit(sendMessage_onSent(World, o, messageId))

SendMail_rejects(o) ==
    \E error \in SendErrs :
        /\ ops[o].kind = "sendMessage"
        /\ ops[o].promise = "pending"
        /\ Commit(sendMessage_onFailed(World, o, error))

NextSend ==
    \/ CallSend(1)
    \/ SendMail_throws(1)
    \/ SendMail_resolves(1)
    \/ SendMail_rejects(1)

SpecSend == Init /\ [][NextSend]_vars

\* searchMessages over queries put together from up to MaxPieces pieces:
\* blanks, plain words, in: tokens in either case, with a known, an unknown
\* or no folder name, alone, repeated, or inside a longer word; and every
\* name of the folder table, and the names folderMap inherits, as in:<name>
\* alone and before a word. The search matches nothing, so each call ends
\* with the search command.
MaxPieces == 3

QueryPieces ==
    { <<" ">>,
      <<"x">>,
      <<"f", "i", "n", "d", " ", "m", "e">>,
      <<"p">>,
      <<"i", "n", ":">>,
      InTok(<<"s", "e", "n", "t">>),
      <<"I", "N", ":", "T", "r", "a", "s", "h">>,
      InTok(<<"b", "o", "g", "u", "s">>) }

FolderNames ==
    { <<"i", "n", "b", "o", "x">>, <<"s", "e", "n", "t">>,
      <<"t", "r", "a", "s", "h">>, <<"b", "i", "n">>, <<"s", "p", "a", "m">>,
      <<"d", "r", "a", "f", "t", "s">>,
      <<"s", "t", "a", "r", "r", "e", "d">>,
      <<"i", "m", "p", "o", "r", "t", "a", "n", "t">>, <<"a", "l", "l">>,
      <<"A", "l", "l">>, <<"s", "e", "n", "t", "_", "1">>,
      <<"c", "o", "n", "s", "t", "r", "u", "c", "t", "o", "r">>,
      <<"_", "_", "p", "r", "o", "t", "o", "_", "_">> }

RECURSIVE concat(_)
concat(pieces) ==
    IF pieces = <<>> THEN <<>> ELSE Head(pieces) \o concat(Tail(pieces))

QueriesWide ==
    {concat(pieces) :
        pieces \in UNION {[1..n -> QueryPieces] : n \in 0..MaxPieces}}
    \cup {InTok(name) \o rest :
            name \in FolderNames, rest \in {<<>>, <<" ", "x">>}}

CallQuery ==
    \E query \in QueriesWide :
        Call(1, "searchMessages", [NoArgs EXCEPT !.query = query])

NextQuery ==
    \/ CallQuery
    \/ TransportReady(1)
    \/ SearchMessages_onOpenBox(1)
    \/ SearchMessages_onOpenBin(1)
    \/ PerformSearch_onSearch(1, {<<>>})

SpecQuery == Init /\ [][NextQuery]_vars

\* searchMessages alone, against mailboxes whose search matches fewer
\* identifiers than the limit of performSearch, as many, or more, in
\* ascending or descending server order. The items of a fetch end in at most
\* two bursts, each burst with or without attributes.
SearchResultsWide ==
    {[i \in 1..n |-> IF desc THEN n + 1 - i ELSE i] :
        n \in (0..MaxMatches)
               \cup ((SearchLimit - 1)..(SearchLimit + MaxMatches)),
        desc \in BOOLEAN}

Bursts(rest) == {n \in {rest - 1, rest} : n >= 1}

Fetch_onMessages(o) ==
    \E rec \in Pending(o, "fetch"), hasAttrs \in BOOLEAN,
       n \in Bursts(ops[o].fetch.want - ops[o].fetch.seen) :
        Commit(fetch_onMessageEndTimes(World, o, rec, hasAttrs, 1, n))

CallSearch ==
    \E args \in ArgsOf("searchMessages") : Call(1, "searchMessages", args)

NextSearch ==
    \/ CallSearch
    \/ TransportReady(1)
    \/ TransportError(1)
    \/ SearchMessages_onOpenBox(1)
    \/ SearchMessages_onOpenBin(1)
    \/ PerformSearch_onSearch(1, SearchResultsWide)
    \/ Fetch_onMessages(1)
    \/ Fetch_onError(1)
    \/ Fetch_onEnd(1)

SpecSearch == Init /\ [][NextSearch]_vars

\* Several public operations in flight at once, each through connectAndRun.
ConcCalls ==
    {<<"createLabel", [NoArgs EXCEPT !.box = <<"Work">>]>>,
     <<"moveMessage", [NoArgs EXCEPT !.ids = <<1>>, !.box = INBOX,
                                     !.to = <<"Work">>]>>}

CallConc(o) == \E call \in ConcCalls : Call(o, call[1], call[2])

NextConc ==
    \E o \in Ops :
        \/ CallConc(o)
        \/ TransportReady(o)
        \/ TransportError(o)
        \/ CreateLabel_onAddBox(o)
        \/ MoveMessage_onOpenBox(o)
        \/ MoveMessage_onMove(o)

SpecConc == Init /\ [][NextConc]_vars

\* ------------------------------------------------------------------- claims
Called(o)  == ops[o].kind # "none"
Settled(o) == ops[o].promise \in {"resolved", "rejected"}
LogOf(o)   == ops[o].log
At(o, e)   == {i \in 1..Len(ops[o].log) : ops[o].log[i].e = e}
Settles(o) == At(o, "resolve") \cup At(o, "reject")
EndCalls(o) == conns[ops[o].imap].endCalls

\* C1: once an operation has concluded, imap.end has been called on its
\* connection exactly once: never zero times and never more than once.
C1_ClosedExactlyOnce ==
    \A o \in Ops : Settled(o) => EndCalls(o) = 1

\* C2: on every concluding path the close of the connection is requested
\* before the operation's promise is resolved or rejected: every call of
\* resolve or reject comes directly after a call of imap.end, and a settled
\* promise was settled by such a call.
C2_CloseBeforeSettle ==
    \A o \in Ops :
        /\ \A i \in Settles(o) : i > 1 /\ LogOf(o)[i - 1].e = "end"
        /\ Settled(o) => Settles(o) # {} /\ EndCalls(o) >= 1

C2_Witness ==
    \E o \in Ops : ops[o].promise = "resolved" /\ At(o, "cb") # {}

\* C3: a connection-level error before readiness rejects the operation with
\* an Error, the action is never invoked and no command is issued on the
\* connection.
C3_ErrorBeforeReady ==
    \A o \in Ops :
        (Called(o) /\ conns[ops[o].imap].state = "failed") =>
            /\ ops[o].promise = "rejected"
            /\ ops[o].result.err.isError
            /\ At(o, "action") = {}
            /\ conns[ops[o].imap].issued = 0

C3_Witness ==
    \E o \in Ops :
        /\ Called(o) /\ conns[ops[o].imap].state = "failed"
        /\ \E i \in At(o, "onError") : ~LogOf(o)[i].err.isError

\* C4: connectAndRun opens exactly one connection per call, registers the
\* ready and error handlers before it calls connect(), and invokes the action
\* at most once and only once the transport has signalled readiness.
C4_OneConnectionOneAction ==
    \A o \in Ops :
        Called(o) =>
            /\ Cardinality(At(o, "createConn")) = 1
            /\ Cardinality(At(o, "connect")) = 1
            /\ Cardinality(At(o, "once")) = 2
            /\ \A i \in At(o, "once") : \A j \in At(o, "connect") : i < j
            /\ {LogOf(o)[i].name : i \in At(o, "once")} = {"ready", "error"}
            /\ Cardinality(At(o, "action")) <= 1
            /\ At(o, "action") # {} => conns[ops[o].imap].state = "ready"

C4_Witness ==
    \E o \in Ops : At(o, "action") # {} /\ conns[ops[o].imap].issued > 0

\* C5: when the action throws synchronously the operation is rejected with
\* the thrown error by the same steps as fail(error), cleanup then reject,
\* and the connection is released.
C5_SyncThrowFails ==
    \A o \in Ops :
        \A i \in At(o, "throw") :
            /\ Len(LogOf(o)) >= i + 2
            /\ LogOf(o)[i + 1].e = "end"
            /\ LogOf(o)[i + 2].e = "reject"
            /\ LogOf(o)[i + 2].err = LogOf(o)[i].err
            /\ ops[o].promise = "rejected"
            /\ ops[o].result.err = LogOf(o)[i].err
            /\ EndCalls(o) >= 1

C5_Witness == \E o \in Ops : At(o, "throw") # {}

\* C6: within one operation commands are strictly serialized: no command is
\* issued on a connection while an earlier one has not completed, so at most
\* one command is outstanding on a connection at any time.
C6_Serialized ==
    \A c \in ConnIds : Cardinality(conns[c].pending) <= 1


\* C7: every operation has a private connection: operations in flight hold
\* distinct connections, every handler and every outstanding command on a
\* connection belongs to the operation that opened it, and a step of one
\* operation (a call, a transport event, a failure, a close) leaves every
\* other operation and its connection as they were.
C7_Distinct ==
    /\ \A o1, o2 \in Ops :
         (o1 # o2 /\ Called(o1) /\ Called(o2)) => ops[o1].imap # ops[o2].imap
    /\ \A c \in ConnIds :
         /\ \A rec \in conns[c].pending : ops[rec.op].imap = c
         /\ \A o \in conns[c].readyH \cup conns[c].errorH : ops[o].imap = c

C7_Frame ==
    \A o \in Ops :
        ops[o]' # ops[o] =>
            \A p \in Ops \ {o} :
                /\ ops[p]' = ops[p]
                /\ Called(p) => conns[ops[p].imap]' = conns[ops[p].imap]

C7_PrivateConnections == [][C7_Distinct' /\ C7_Frame]_vars

C7_Witness ==
    \E o1, o2 \in Ops :
        /\ ops[o1].promise = "rejected" /\ EndCalls(o1) >= 1
        /\ ops[o2].promise = "resolved" /\ At(o2, "cb") # {}
        /\ LogOf(o2)[Len(LogOf(o2))].e = "resolve"

\* C8: if the transport eventually signals ready or error and every issued
\* command eventually completes, the operation called (operation 1, of any
\* kind) eventually concludes, resolved or rejected, and an outcome once
\* settled never changes.
C8_Concludes ==
    /\ (ops[1].promise = "pending") ~> Settled(1)
    /\ [][\A o \in Ops : Settled(o) =>
             /\ ops[o].promise' = ops[o].promise
             /\ ops[o].result' = ops[o].result]_vars

C8_Witness ==
    \E o \in Ops : Settled(o) /\ conns[ops[o].imap].issued >= 3

\* C9: an operation never reports success after one of its commands reported
\* an error, apart from a Trash failure the trash/bin fallback handles.
FallbackStep(rec) ==
    \/ rec.k = "deleteMessages.moveTrash"
    \/ rec.k = "searchMessages.openBox" /\ rec.box = TRASH

C9_NoSuccessAfterCommandError ==
    \A o \in Ops :
        ops[o].promise = "resolved" =>
            /\ At(o, "fetchError") = {}
            /\ \A i \in At(o, "cb") :
                 LogOf(o)[i].err # NoErr => FallbackStep(LogOf(o)[i].cmd)

\* C10: searchMessages opens [Gmail]/Bin read-only right after a failed open
\* of a translated [Gmail]/Trash and surfaces no error before; if Bin opens
\* the search is issued there; if Bin fails the operation fails naming Trash.
\* Any other translated folder is opened once, and its failure fails the
\* operation at once with a message naming that folder.
Follows(o, i, e) == Len(LogOf(o)) >= i + 1 /\ LogOf(o)[i + 1].e = e

FailsWith(o, i, err) ==
    /\ Len(LogOf(o)) >= i + 2
    /\ LogOf(o)[i + 1].e = "end"
    /\ LogOf(o)[i + 2].e = "reject"
    /\ LogOf(o)[i + 2].err = err

C10_TrashBinFallback ==
    \A o \in Ops :
        ops[o].kind = "searchMessages" =>
            LET log == LogOf(o)
                opens == {i \in At(o, "cmd") : log[i].cmd.name = "openBox"}
                first == CHOOSE i \in opens : \A j \in opens : i <= j
                folder == log[first].cmd.box
            IN  opens # {} =>
                /\ \A i \in opens : log[i].cmd.ro
                /\ Cardinality(opens) <= IF folder = TRASH THEN 2 ELSE 1
                /\ \A i \in At(o, "cb") :
                     LET rec == log[i].cmd
                         err == log[i].err
                     IN  /\ (rec.k = "searchMessages.openBox" /\ err # NoErr
                               /\ folder = TRASH) =>
                                /\ Follows(o, i, "cmd")
                                /\ log[i + 1].cmd.name = "openBox"
                                /\ log[i + 1].cmd.box = BIN
                         /\ (rec.k = "searchMessages.openBox" /\ err # NoErr
                               /\ folder # TRASH) =>
                                FailsWith(o, i, OpenFailed(folder, err))
                         /\ (rec.k = "searchMessages.openBin" /\ err # NoErr) =>
                                /\ folder = TRASH
                                /\ \E j \in At(o, "cb") :
                                     /\ log[j].cmd.k = "searchMessages.openBox"
                                     /\ FailsWith(o, i,
                                          OpenFailed(TRASH, log[j].err))
                         /\ (rec.name = "openBox" /\ err = NoErr) =>
                                /\ Follows(o, i, "cmd")
                                /\ log[i + 1].cmd.name = "search"

C10_Witness ==
    \E o \in Ops :
        /\ ops[o].kind = "searchMessages"
        /\ ops[o].promise = "resolved"
        /\ \E i \in At(o, "cmd") : LogOf(o)[i].cmd.box = BIN
        /\ \E i \in At(o, "cmd") : LogOf(o)[i].cmd.box = TRASH

C10_WitnessBinFails ==
    \E o \in Ops :
        /\ ops[o].kind = "searchMessages"
        /\ ops[o].promise = "rejected"
        /\ \E i \in At(o, "cb") :
             LogOf(o)[i].cmd.k = "searchMessages.openBin"
             /\ LogOf(o)[i].err # NoErr
        /\ ops[o].result.err.msg[2] = TRASH

\* C11: deleteMessages selects INBOX read-write, then moves the given
\* identifiers to [Gmail]/Trash; one move to [Gmail]/Bin is issued exactly
\* when the Trash move failed; a move that succeeded is followed by a close
\* of the mailbox without expunge whose completion reports success with the
\* number of identifiers requested; a command makes the operation fail only
\* as the failed select or as the Bin move that failed after the Trash move
\* failed; no other command (no expunge, no delete) is ever issued.
MoveOf(o, rec, dest) ==
    /\ rec.name = "move"
    /\ rec.box = dest
    /\ rec.ids = ops[o].args.ids

C11_DeleteMessages ==
    \A o \in Ops :
        ops[o].kind = "deleteMessages" =>
            LET log == LogOf(o)
                cmds == At(o, "cmd")
            IN  /\ \A i \in cmds :
                     /\ log[i].cmd.name \in {"openBox", "move", "closeBox"}
                     /\ log[i].cmd.name = "closeBox" =>
                            log[i].cmd.text = <<"false">>
                     /\ log[i].cmd.name = "openBox" =>
                            /\ log[i].cmd.box = INBOX
                            /\ ~log[i].cmd.ro
                            /\ \A j \in cmds : j >= i
                     /\ log[i].cmd.name # "openBox" =>
                            /\ log[i - 1].e = "cb"
                            /\ log[i - 1].cmd.name \in {"openBox", "move"}
                /\ Cardinality({i \in cmds : log[i].cmd.box = BIN}) <= 1
                /\ Cardinality({i \in cmds : log[i].cmd.box = TRASH}) <= 1
                /\ \A i \in At(o, "cb") :
                     LET rec == log[i].cmd
                         err == log[i].err
                     IN  /\ (rec.name = "openBox" /\ err = NoErr) =>
                                /\ Follows(o, i, "cmd")
                                /\ MoveOf(o, log[i + 1].cmd, TRASH)
                         /\ (rec.name = "openBox" /\ err # NoErr) =>
                                FailsWith(o, i, err)
                         /\ (rec.name = "move" /\ err = NoErr) =>
                                /\ Follows(o, i, "cmd")
                                /\ log[i + 1].cmd.name = "closeBox"
                         /\ (rec.name = "move" /\ rec.box = TRASH
                               /\ err # NoErr) =>
                                /\ Follows(o, i, "cmd")
                                /\ MoveOf(o, log[i + 1].cmd, BIN)
                         /\ (rec.name = "move" /\ rec.box = BIN
                               /\ err # NoErr) =>
                                FailsWith(o, i, err)
                         /\ rec.name = "closeBox" =>
                                /\ Follows(o, i, "end")
                                /\ Follows(o, i + 1, "resolve")
                                /\ At(o, "onError") = {} =>
                                     ops[o].promise = "resolved"
                /\ ops[o].promise = "resolved" =>
                     /\ ops[o].result.success
                     /\ ops[o].result.n = Len(ops[o].args.ids)
                     /\ \E i \in At(o, "cb") :
                          log[i].cmd.name = "move" /\ log[i].err = NoErr

C11_Witness ==
    \E o \in Ops :
        /\ ops[o].kind = "deleteMessages"
        /\ ops[o].promise = "resolved"
        /\ ops[o].result.n = 2
        /\ \E i, j \in At(o, "cb") :
             /\ LogOf(o)[i].cmd.box = TRASH /\ LogOf(o)[i].err # NoErr
             /\ LogOf(o)[j].cmd.box = BIN /\ LogOf(o)[j].err = NoErr

\* C12: a command that reported an error is never issued again: after a
\* failed command no further command is issued, except that a failed Trash
\* step (folder open in searchMessages, move in deleteMessages) is followed
\* at once by one attempt of the same command against [Gmail]/Bin; so every
\* operation makes at most two attempts at its fallback step and one attempt
\* at every other step (labelMessage: one copy per label).
HasFallback(o, name) ==
    \/ ops[o].kind = "deleteMessages" /\ name = "move"
    \/ ops[o].kind = "searchMessages" /\ name = "openBox"

Attempts(o, name) ==
    Cardinality({j \in At(o, "cmd") : LogOf(o)[j].cmd.name = name})

CommandNames ==
    {"openBox", "search", "fetch", "addFlags", "closeBox", "move", "copy",
     "getBoxes", "addBox", "delBox", "renameBox"}

C12_NoRetry ==
    \A o \in Ops :
        LET log == LogOf(o)
            cmds == At(o, "cmd")
        IN  /\ \A i \in At(o, "cb") :
                 LET rec == log[i].cmd
                     later == {j \in cmds : j > i}
                     again == {j \in later : log[j].cmd.name = rec.name}
                 IN  log[i].err # NoErr =>
                        IF FallbackStep(rec)
                        THEN /\ again = {i + 1}
                             /\ log[i + 1].cmd.box = BIN
                             /\ log[i + 1].cmd.ids = rec.ids
                        ELSE later = {}
            /\ \A i \in At(o, "fetchError") : \A j \in cmds : j < i
            /\ \A i \in cmds : log[i].cmd.name \in CommandNames
            /\ \A name \in CommandNames :
                 Attempts(o, name) <=
                    IF HasFallback(o, name) THEN 2
                    ELSE IF name = "copy" THEN Len(ops[o].args.labels)
                    ELSE 1

C12_Witness ==
    \E o \in Ops :
        /\ ops[o].kind = "deleteMessages"
        /\ ops[o].promise = "rejected"
        /\ Attempts(o, "move") = 2
        /\ \E i \in At(o, "cb") :
             LogOf(o)[i].cmd.box = BIN /\ LogOf(o)[i].err # NoErr

\* C13: the fetch of a searchMessages call asks, by identifier, for the
\* first SearchLimit (50) identifiers of the server's result in server
\* order; every successful result has totalCount equal to the number of
\* identifiers the server matched, at most min(totalCount, 50) messages, all
\* of them among the fetched identifiers, and the query of the call
\* unchanged.
Matched(o) == LogOf(o)[CHOOSE i \in At(o, "results") : TRUE].ids

NoList(o) == ~LogOf(o)[CHOOSE i \in At(o, "results") : TRUE].defined

Fetches(o) == {i \in At(o, "cmd") : LogOf(o)[i].cmd.name = "fetch"}

C13_SearchCap ==
    \A o \in Ops :
        ops[o].kind = "searchMessages" =>
            /\ Cardinality(At(o, "results")) <= 1
            /\ Cardinality(Fetches(o)) <= 1
            /\ \A i \in Fetches(o) :
                 LET fetched == LogOf(o)[i].cmd.ids
                 IN  /\ At(o, "results") # {}
                     /\ LogOf(o)[i].cmd.text = <<"uid">>
                     /\ Len(fetched) = Min(Len(Matched(o)), 50)
                     /\ \A j \in 1..Len(fetched) : fetched[j] = Matched(o)[j]
            /\ ops[o].promise = "resolved" =>
                 LET result == ops[o].result
                 IN  /\ At(o, "results") # {}
                     /\ result.totalCount = Len(Matched(o))
                     /\ result.query = ops[o].args.query
                     /\ Len(result.messages) <= Min(result.totalCount, 50)
                     /\ \A m \in 1..Len(result.messages) :
                          \E i \in Fetches(o), j \in 1..50 :
                              /\ j <= Len(LogOf(o)[i].cmd.ids)
                              /\ result.messages[m].id = <<LogOf(o)[i].cmd.ids[j]>>

C13_Witness ==
    \E o \in Ops :
        /\ ops[o].kind = "searchMessages"
        /\ ops[o].promise = "resolved"
        /\ ops[o].result.totalCount > 50
        /\ Len(ops[o].result.messages) = 50
        /\ Matched(o)[1] > 50

\* C14: when the search of a searchMessages call succeeds with no matches
\* (an empty list, or no list at all) the callback concludes the call at
\* once with {messages: [], totalCount: 0, query: the query of the call},
\* and the call issues no fetch command.
ZeroMatches(o, i) ==
    /\ LogOf(o)[i].e = "results"
    /\ LogOf(o)[i - 1].err = NoErr
    /\ ~LogOf(o)[i].defined \/ Len(LogOf(o)[i].ids) = 0

C14_ZeroMatches ==
    \A o \in Ops :
        ops[o].kind = "searchMessages" =>
            \A i \in At(o, "results") :
                ZeroMatches(o, i) =>
                    /\ Follows(o, i, "end")
                    /\ Follows(o, i + 1, "resolve")
                    /\ \A j \in At(o, "cmd") : j < i
                    /\ Fetches(o) = {}
                    /\ ops[o].promise # "pending"
                    /\ ops[o].promise = "resolved" =>
                         /\ ops[o].result.messages = <<>>
                         /\ ops[o].result.totalCount = 0
                         /\ ops[o].result.query = ops[o].args.query
                    /\ At(o, "onError") = {} => ops[o].promise = "resolved"

C14_Witness ==
    \E o \in Ops :
        /\ ops[o].kind = "searchMessages"
        /\ ops[o].promise = "resolved"
        /\ \E i \in At(o, "results") : ZeroMatches(o, i) /\ NoList(o)
        /\ ops[o].result.totalCount = 0

C14_WitnessEmptyList ==
    \E o \in Ops :
        /\ ops[o].kind = "searchMessages"
        /\ ops[o].promise = "resolved"
        /\ \E i \in At(o, "results") : ZeroMatches(o, i) /\ ~NoList(o)
        /\ ops[o].args.query =
              InTok(<<"t", "r", "a", "s", "h">>) \o <<" ">> \o Word(<<"x">>)

\* C15: listMessages(count), count >= 1: when the inbox opens with total = 0
\* the call concludes at once with an empty list and no fetch; when it opens
\* with total > 0 the next command is the one fetch of the call, by sequence
\* number, of the range start:total with start = max(1, total - count + 1),
\* so 1 <= start <= total and the range holds min(count, total) numbers;
\* the messages returned are items of that range, at most min(count, total).
RangeStart(count, total) ==
    IF total - count + 1 >= 1 THEN total - count + 1 ELSE 1

C15_ListRange ==
    \A o \in Ops :
        ops[o].kind = "listMessages" =>
            LET log == LogOf(o)
                count == ops[o].args.count
            IN  /\ count >= 1
                /\ Fetches(o) # {} => At(o, "box") # {}
                /\ \A i \in At(o, "box") :
                     LET total == log[i].total
                         start == RangeStart(count, total)
                     IN  log[i - 1].err = NoErr =>
                           /\ total = 0 =>
                                /\ Follows(o, i, "end")
                                /\ Follows(o, i + 1, "resolve")
                                /\ Fetches(o) = {}
                                /\ ops[o].promise = "resolved" =>
                                     ops[o].result.messages = <<>>
                           /\ total > 0 =>
                                /\ Fetches(o) = {i + 1}
                                /\ log[i + 1].cmd.text = <<"seq">>
                                /\ log[i + 1].cmd.ids = <<start, total>>
                                /\ 1 <= start /\ start <= total
                                /\ total - start + 1 = Min(count, total)
                                /\ ops[o].promise = "resolved" =>
                                     LET messages == ops[o].result.messages
                                     IN  /\ Len(messages) <= Min(count, total)
                                         /\ \A m \in 1..Len(messages) :
                                              messages[m].id \in {<<u>> : u \in start..total}

C15_Witness ==
    \E o \in Ops :
        /\ ops[o].kind = "listMessages"
        /\ ops[o].promise = "resolved"
        /\ ops[o].args.count = 2
        /\ \E i \in At(o, "box") : LogOf(o)[i].total = 1
        /\ \E i \in Fetches(o) : LogOf(o)[i].cmd.ids = <<1, 1>>
        /\ Len(ops[o].result.messages) = 1

\* C16: listUnreadMessages(count) opens INBOX read-only and searches UNSEEN;
\* when the search succeeds with no matches the call concludes at once with
\* an empty list and no fetch; when it matches n >= 1 identifiers the next
\* command is the one fetch of the call, by identifier, of the last
\* min(count, n) of them in the order of the search result; the messages
\* returned are among those, so at most count.
C16_UnreadSuffix ==
    \A o \in Ops :
        ops[o].kind = "listUnreadMessages" =>
            LET log == LogOf(o)
                count == ops[o].args.count
            IN  /\ \A i \in At(o, "cmd") :
                     /\ log[i].cmd.name = "openBox" =>
                            log[i].cmd.box = INBOX /\ log[i].cmd.ro
                     /\ log[i].cmd.name = "search" =>
                            /\ log[i].cmd.text = <<"UNSEEN">>
                            /\ log[i - 1].e = "cb"
                            /\ log[i - 1].cmd.name = "openBox"
                            /\ log[i - 1].err = NoErr
                /\ Fetches(o) # {} => At(o, "results") # {}
                /\ \A i \in At(o, "results") :
                     LET ids == log[i].ids
                         n == Len(ids)
                         k == Min(count, n)
                     IN  log[i - 1].err = NoErr =>
                           /\ log[i - 1].cmd.name = "search"
                           /\ (~log[i].defined \/ n = 0) =>
                                /\ Follows(o, i, "end")
                                /\ Follows(o, i + 1, "resolve")
                                /\ Fetches(o) = {}
                                /\ ops[o].promise = "resolved" =>
                                     ops[o].result.messages = <<>>
                           /\ (log[i].defined /\ n > 0) =>
                                /\ Fetches(o) = {i + 1}
                                /\ log[i + 1].cmd.text = <<"uid">>
                                /\ Len(log[i + 1].cmd.ids) = k
                                /\ \A j \in 1..k :
                                     log[i + 1].cmd.ids[j] = ids[n - k + j]
                                /\ ops[o].promise = "resolved" =>
                                     LET messages == ops[o].result.messages
                                     IN  /\ Len(messages) <= count
                                         /\ \A m \in 1..Len(messages) :
                                              \E j \in 1..k :
                                                messages[m].id = <<ids[n - k + j]>>

C16_Witness ==
    \E o \in Ops :
        /\ ops[o].kind = "listUnreadMessages"
        /\ ops[o].promise = "resolved"
        /\ ops[o].args.count = 1
        /\ \E i \in At(o, "results") : Len(LogOf(o)[i].ids) = 2
        /\ \E i \in Fetches(o) : LogOf(o)[i].cmd.ids = <<2>>
        /\ Len(ops[o].result.messages) = 1

\* C17: markMessagesAsRead issues, in this order and each only after the
\* one before completed without error, openBox INBOX read-write, addFlags
\* the Seen flag on the given identifiers, closeBox without expunge, nothing
\* else; a failed openBox or addFlags fails the call at once; success is
\* reported only by the callback of closeBox, with updatedCount equal to the
\* number of identifiers given.
C17_MarkReadOrder ==
    \A o \in Ops :
        ops[o].kind = "markMessagesAsRead" =>
            LET log == LogOf(o)
                ids == ops[o].args.ids
                names == [i \in 1..Cardinality(At(o, "cmd")) |->
                            SelectSeq(log, LAMBDA x : x.e = "cmd")[i].cmd.name]
            IN  /\ names \in {<<>>, <<"openBox">>, <<"openBox", "addFlags">>,
                               <<"openBox", "addFlags", "closeBox">>}
                /\ \A i \in At(o, "cmd") :
                     LET rec == log[i].cmd
                     IN  /\ rec.name = "openBox" =>
                                rec.box = INBOX /\ ~rec.ro
                         /\ rec.name = "addFlags" =>
                                /\ rec.ids = ids
                                /\ rec.text = <<"\\Seen">>
                                /\ log[i - 1].e = "cb"
                                /\ log[i - 1].cmd.name = "openBox"
                                /\ log[i - 1].err = NoErr
                         /\ rec.name = "closeBox" =>
                                /\ rec.text = <<"false">>
                                /\ log[i - 1].e = "cb"
                                /\ log[i - 1].cmd.name = "addFlags"
                                /\ log[i - 1].err = NoErr
                /\ \A i \in At(o, "cb") :
                     /\ (log[i].cmd.name \in {"openBox", "addFlags"}
                           /\ log[i].err # NoErr) =>
                            /\ FailsWith(o, i, log[i].err)
                            /\ \A j \in At(o, "cmd") : j < i
                     /\ (log[i].cmd.name \in {"openBox", "addFlags"}
                           /\ log[i].err = NoErr) =>
                            Follows(o, i, "cmd")
                     /\ log[i].cmd.name = "closeBox" =>
                            /\ Follows(o, i, "end")
                            /\ Follows(o, i + 1, "resolve")
                /\ \A i \in At(o, "resolve") :
                     i > 2 /\ log[i - 2].e = "cb"
                           /\ log[i - 2].cmd.name = "closeBox"
                /\ ops[o].promise = "resolved" =>
                     /\ ops[o].result.success
                     /\ ops[o].result.n = Len(ids)

C17_Witness ==
    \E o \in Ops :
        /\ ops[o].kind = "markMessagesAsRead"
        /\ ops[o].promise = "resolved"
        /\ ops[o].result.n = 2
        /\ \E i \in At(o, "cb") :
             LogOf(o)[i].cmd.name = "closeBox" /\ LogOf(o)[i].err = NoErr

\* C18: labelMessage issues, in the successful callback of its openBox and
\* nowhere else, one copy of the message per entry of labels, in the order
\* of labels; resolve is called only once every one of those copies has
\* completed without error; the first copy that fails makes the call fail
\* at once, and a call with a failed copy is never resolved.
Copies(o) == {i \in At(o, "cmd") : LogOf(o)[i].cmd.name = "copy"}

CopyCbs(o, failed) ==
    {i \in At(o, "cb") : /\ LogOf(o)[i].cmd.name = "copy"
                         /\ (LogOf(o)[i].err # NoErr) = failed}

C18_LabelAllOrNothing ==
    \A o \in Ops :
        ops[o].kind = "labelMessage" =>
            LET log == LogOf(o)
                labels == ops[o].args.labels
                opens == {i \in At(o, "cb") : log[i].cmd.name = "openBox"}
            IN  /\ Copies(o) # {} => opens # {}
                /\ \A i \in opens :
                     IF log[i].err # NoErr
                     THEN Copies(o) = {} /\ FailsWith(o, i, log[i].err)
                     ELSE /\ Copies(o) = (i + 1)..(i + Len(labels))
                          /\ \A j \in 1..Len(labels) :
                               /\ log[i + j].cmd.box = labels[j]
                               /\ log[i + j].cmd.ids = ops[o].args.ids
                /\ \A i \in At(o, "resolve") :
                     /\ CopyCbs(o, TRUE) = {}
                     /\ Cardinality({j \in CopyCbs(o, FALSE) : j < i})
                            = Len(labels)
                /\ \A i \in CopyCbs(o, TRUE) :
                     /\ (\A j \in CopyCbs(o, TRUE) : i <= j) =>
                            FailsWith(o, i, log[i].err)
                     /\ ops[o].promise = "rejected"

C18_Witness ==
    \E o \in Ops :
        /\ ops[o].kind = "labelMessage"
        /\ Len(ops[o].args.labels) = 2
        /\ ops[o].promise = "rejected"
        /\ \E i \in CopyCbs(o, FALSE), j \in CopyCbs(o, TRUE) : i < j

C18_WitnessSuccess ==
    \E o \in Ops :
        /\ ops[o].kind = "labelMessage"
        /\ Len(ops[o].args.labels) = 2
        /\ ops[o].promise = "resolved"
        /\ Cardinality(CopyCbs(o, FALSE)) = 2

\* C19: moveMessage issues openBox on the given source folder (INBOX when
\* the caller gave none) read-write and, in its successful callback only,
\* one move of the message to the destination, and nothing else: a failed
\* openBox or move fails the call at once with that error and no further
\* command, also when the destination is [Gmail]/Trash, and [Gmail]/Bin is
\* never tried in its place.
C19_MoveNoFallback ==
    \A o \in Ops :
        ops[o].kind = "moveMessage" =>
            LET log == LogOf(o)
                args == ops[o].args
            IN  /\ Attempts(o, "openBox") <= 1
                /\ Attempts(o, "move") <= 1
                /\ \A i \in At(o, "cmd") :
                     LET rec == log[i].cmd
                     IN  /\ rec.name \in {"openBox", "move"}
                         /\ rec.name = "openBox" =>
                                /\ rec.box = IF args.box = <<>> THEN INBOX
                                              ELSE args.box
                                /\ ~rec.ro
                                /\ \A j \in At(o, "cmd") : j >= i
                         /\ rec.name = "move" =>
                                /\ rec.box = args.to
                                /\ rec.ids = args.ids
                                /\ log[i - 1].e = "cb"
                                /\ log[i - 1].cmd.name = "openBox"
                                /\ log[i - 1].err = NoErr
                /\ \A i \in At(o, "cb") :
                     IF log[i].err # NoErr
                     THEN /\ FailsWith(o, i, log[i].err)
                          /\ \A j \in At(o, "cmd") : j < i
                          /\ ops[o].promise = "rejected"
                     ELSE /\ log[i].cmd.name = "openBox" =>
                                Follows(o, i, "cmd")
                          /\ log[i].cmd.name = "move" =>
                                /\ Follows(o, i, "end")
                                /\ Follows(o, i + 1, "resolve")
                /\ ops[o].promise = "resolved" =>
                     \E i \in At(o, "cb") :
                        log[i].cmd.name = "move" /\ log[i].err = NoErr

C19_Witness ==
    \E o \in Ops :
        /\ ops[o].kind = "moveMessage"
        /\ ops[o].args.to = TRASH
        /\ ops[o].args.box = <<>>
        /\ ops[o].promise = "rejected"
        /\ Attempts(o, "move") = 1
        /\ \E i \in At(o, "cb") :
             LogOf(o)[i].cmd.name = "move" /\ LogOf(o)[i].err # NoErr

\* C20: moveLabel(label, newParent) renames label to newParent + delimiter
\* + leaf(label), where the delimiter is the hierarchy delimiter of the
\* provider the label lives on and leaf(label) is the last segment of label
\* (every ancestor segment dropped).
ProviderDelimiter(path) ==
    IF \E i \in 1..Len(path) : path[i] = "." THEN "." ELSE "/"

LeafSegment(path) == <<Last(path)>>

Renames(o) == {i \in At(o, "cmd") : LogOf(o)[i].cmd.name = "renameBox"}

C20_MoveLabelDestination ==
    \A o \in Ops :
        ops[o].kind = "moveLabel" =>
            \A i \in Renames(o) :
                /\ LogOf(o)[i].cmd.box = ops[o].args.box
                /\ LogOf(o)[i].cmd.to =
                       ops[o].args.to
                         \o <<ProviderDelimiter(ops[o].args.box)>>
                         \o LeafSegment(ops[o].args.box)

\* On a provider whose delimiter is "/" the destination is as C20 says.
C20_SlashProvider ==
    \A o \in Ops :
        (ops[o].kind = "moveLabel"
           /\ ProviderDelimiter(ops[o].args.box) = "/") =>
            \A i \in Renames(o) :
                /\ LogOf(o)[i].cmd.box = ops[o].args.box
                /\ LogOf(o)[i].cmd.to =
                       ops[o].args.to \o <<"/">> \o LeafSegment(ops[o].args.box)

C20_SlashWitness ==
    \E o \in Ops :
        /\ ops[o].kind = "moveLabel"
        /\ ops[o].args.box = <<"Work", "/", "Project">>
        /\ ops[o].promise = "resolved"
        /\ \E i \in Renames(o) :
             LogOf(o)[i].cmd.to = <<"Archive", "/", "Project">>

\* C21: createLabel, deleteLabel and renameLabel each issue exactly one
\* command, addBox, delBox or renameBox, with the caller's path (for
\* renameLabel both paths) unchanged, and never an openBox; the callback of
\* that command concludes the call: resolve when it reports no error,
\* reject with its error otherwise, so the call succeeds only when the
\* command did.
FolderCommand(kind) ==
    CASE kind = "createLabel" -> "addBox"
      [] kind = "deleteLabel" -> "delBox"
      [] kind = "renameLabel" -> "renameBox"

C21_LabelOneToOne ==
    \A o \in Ops :
        ops[o].kind \in {"createLabel", "deleteLabel", "renameLabel"} =>
            LET log == LogOf(o)
                args == ops[o].args
            IN  /\ Cardinality(At(o, "cmd")) <= 1
                /\ At(o, "action") # {} /\ At(o, "throw") = {} =>
                     Cardinality(At(o, "cmd")) = 1
                /\ \A i \in At(o, "cmd") :
                     /\ log[i].cmd.name = FolderCommand(ops[o].kind)
                     /\ log[i].cmd.box = args.box
                     /\ log[i].cmd.to =
                            IF ops[o].kind = "renameLabel" THEN args.to
                            ELSE <<>>
                /\ \A i \in At(o, "cb") :
                     IF log[i].err = NoErr
                     THEN /\ Follows(o, i, "end")
                          /\ Follows(o, i + 1, "resolve")
                          /\ At(o, "onError") = {} =>
                               ops[o].promise = "resolved"
                     ELSE /\ FailsWith(o, i, log[i].err)
                          /\ ops[o].promise = "rejected"
                /\ ops[o].promise = "resolved" =>
                     /\ ops[o].result.success
                     /\ \E i \in At(o, "cb") : log[i].err = NoErr

C21_Witness ==
    \E o \in Ops :
        /\ ops[o].kind = "renameLabel"
        /\ ops[o].promise = "resolved"
        /\ \E i \in At(o, "cmd") :
             /\ LogOf(o)[i].cmd.box = <<"Work", "/", "Project">>
             /\ LogOf(o)[i].cmd.to = <<"Old">>

\* C22: when the end event of a fetch resolves it, the messages it hands on
\* are the messages parsed so far, in non-increasing order of timestamp
\* (for adjacent results date[i] >= date[i+1]), the messages of one and the
\* same timestamp in the order in which they arrived.
TimeOf(m) == m.date.iso

SameTime(messages, t) == SelectSeq(messages, LAMBDA m : TimeOf(m) = t)

StableNewestFirst(out, arrived) ==
    /\ Len(out) = Len(arrived)
    /\ \A i \in 1..(Len(out) - 1) : TimeOf(out[i]) >= TimeOf(out[i + 1])
    /\ \A i \in 1..Len(arrived) :
         SameTime(out, TimeOf(arrived[i]))
            = SameTime(arrived, TimeOf(arrived[i]))

C22_SortedNewestFirst ==
    [][\A o \in Ops :
         (ops[o].fetch.promise = "pending"
            /\ ops'[o].fetch.promise = "resolved") =>
             /\ StableNewestFirst(ops'[o].fetch.messages,
                                  ops[o].fetch.messages)
             /\ (ops[o].promise = "pending"
                   /\ ops'[o].promise = "resolved") =>
                    ops'[o].result.messages = ops'[o].fetch.messages]_vars

C22_Witness ==
    \E o \in Ops :
        /\ ops[o].promise = "resolved"
        /\ Len(ops[o].result.messages) = 2
        /\ ops[o].result.messages[1].id = <<2>>
        /\ ops[o].result.messages[2].id = <<1>>
        /\ TimeOf(ops[o].result.messages[1])
              > TimeOf(ops[o].result.messages[2])

C22_WitnessTie ==
    \E o \in Ops :
        /\ ops[o].promise = "resolved"
        /\ Len(ops[o].result.messages) = 2
        /\ ops[o].result.messages[1].id = <<1>>
        /\ TimeOf(ops[o].result.messages[1])
              = TimeOf(ops[o].result.messages[2])

\* C23: fetchMessages handed an empty explicit identifier list resolves at
\* once to the empty result: the caller's action is followed directly by
\* its conclusion, and no command is ever issued on the connection.
EmptyFetch(o) ==
    ops[o].kind = "fetchMessages" /\ ops[o].args.ids = <<>>

C23_EmptyListNoCommand ==
    \A o \in Ops :
        EmptyFetch(o) =>
            /\ At(o, "cmd") = {}
            /\ ops[o].imap # 0 =>
                 /\ conns[ops[o].imap].issued = 0
                 /\ conns[ops[o].imap].pending = {}
            /\ \A i \in At(o, "action") :
                 At(o, "throw") = {} =>
                    /\ Follows(o, i, "end")
                    /\ Follows(o, i + 1, "resolve")
                    /\ ops[o].fetch.promise = "resolved"
                    /\ ops[o].promise = "resolved"
            /\ ops[o].promise = "resolved" => ops[o].result.messages = <<>>

C23_Witness ==
    \E o \in Ops :
        /\ EmptyFetch(o)
        /\ ops[o].promise = "resolved"
        /\ ops[o].result.success
        /\ At(o, "action") # {}

Items(o) == ops[o].fetch.items

EndedWithAttributes(o) ==
    {i \in 1..Len(Items(o)) : Items(o)[i].ended /\ Items(o)[i].hasAttributes}

\* C24: in a fetch, messages are pushed only by the end handler of an item,
\* and the messages parsed so far are exactly one per item that has ended
\* with its attribute block arrived, carrying that item's identifier; an
\* item that ends without attributes adds nothing and fails nothing.
C24_OneMessagePerItem ==
    \A o \in Ops :
        ops[o].kind = "fetchMessages" =>
            /\ Len(ops[o].fetch.messages) = Cardinality(EndedWithAttributes(o))
            /\ \A i \in EndedWithAttributes(o) :
                 \E m \in 1..Len(ops[o].fetch.messages) :
                    ops[o].fetch.messages[m].id = <<Items(o)[i].attributes.uid>>

\* What holds of the code: one message per item that ended with attributes
\* whose parse did not throw.
Unparsable(o) ==
    {i \in EndedWithAttributes(o) : Items(o)[i].attributes.date.kind = "invalid"}

C24_ExceptParseFailure ==
    \A o \in Ops :
        ops[o].kind = "fetchMessages" =>
            /\ Len(ops[o].fetch.messages)
                  = Cardinality(EndedWithAttributes(o) \ Unparsable(o))
            /\ \A i \in EndedWithAttributes(o) \ Unparsable(o) :
                 \E m \in 1..Len(ops[o].fetch.messages) :
                    ops[o].fetch.messages[m].id = <<Items(o)[i].attributes.uid>>
            /\ Cardinality(At(o, "parseError")) = Cardinality(Unparsable(o))
            /\ (At(o, "fetchError") = {} /\ At(o, "onError") = {}
                  /\ At(o, "throw") = {}) =>
                 ops[o].promise # "rejected"

C24_PushedAtEndOnly ==
    [][\A o \in Ops :
         Len(ops'[o].fetch.messages) # Len(ops[o].fetch.messages) =>
            /\ Len(ops'[o].fetch.messages) = Len(ops[o].fetch.messages) + 1
            /\ \E i \in 1..Len(Items(o)) :
                 /\ ~Items(o)[i].ended
                 /\ ops'[o].fetch.items[i].ended
                 /\ Items(o)[i].hasAttributes]_vars

C24_DroppedWitness ==
    \E o \in Ops :
        /\ ops[o].kind = "fetchMessages"
        /\ ops[o].promise = "resolved"
        /\ Len(Items(o)) = 2
        /\ ~Items(o)[1].hasAttributes
        /\ Len(ops[o].result.messages) = 1

\* C25: once the bulk fetch has reported an error, the operation using the
\* fetch is rejected and its outcome carries no messages, whatever had been
\* parsed before the error and whether or not the end event fires later.
FetchFailed(o) == At(o, "fetchError") # {}

C25_FetchErrorNoPartial ==
    \A o \in Ops :
        FetchFailed(o) =>
            /\ ops[o].promise = "rejected"
            /\ ops[o].result.err # NoErr
            /\ ops[o].result = Rejected(ops[o].result.err)
            /\ ops[o].fetch.promise = "rejected"

\* Two messages were parsed, then the error, then the end event.
C25_Witness ==
    \E o \in Ops :
        /\ ops[o].kind \in {"listMessages", "searchMessages",
                            "listUnreadMessages"}
        /\ Len(ops[o].fetch.messages) = 2
        /\ \E i \in At(o, "fetchError") :
             \E j \in At(o, "cb") : j > i /\ LogOf(o)[j].cmd.name = "fetch"
        /\ ops[o].promise = "rejected"

\* The header lines of a block, and the name and value of a line that holds
\* a colon, cut at its first colon.
LinesOf(block) == split(block, CRLF)

HasColon(line) == \E i \in 1..Len(line) : line[i] = ":"

FirstColon(line) ==
    CHOOSE i \in 1..Len(line) :
        line[i] = ":" /\ \A j \in 1..(i - 1) : line[j] # ":"

NameOf(line) == trim(toLowerCase(SubSeq(line, 1, FirstColon(line) - 1)))

ValueOf(line) == trim(SubSeq(line, FirstColon(line) + 1, Len(line)))

\* The value of the last line named name; Absent when no line is, or when
\* that value is empty.
Absent == <<"absent">>

FieldOf(block, name) ==
    LET lines == LinesOf(block)
        at == {i \in 1..Len(lines) :
                 HasColon(lines[i]) /\ NameOf(lines[i]) = <<name>>}
        last == CHOOSE i \in at : \A j \in at : j <= i
    IN  IF at = {} \/ ValueOf(lines[last]) = <<>> THEN Absent
        ELSE ValueOf(lines[last])

\* C26: parseHeader never fails: every item that ends with its attribute
\* block arrived, whatever its header block and attributes, yields a Message
\* whose subject, sender and date are the first-colon fields of the block or
\* the defaults "(No Subject)", the empty string and the parse time.
C26_ParseHeaderTotal ==
    \A o \in Ops : \A i \in EndedWithAttributes(o) :
        /\ At(o, "parseError") = {}
        /\ \E m \in 1..Len(ops[o].fetch.messages) :
             LET msg == ops[o].fetch.messages[m]
                 block == Items(o)[i].header
                 attrs == Items(o)[i].attributes
             IN  /\ msg.subject = IF FieldOf(block, "subject") = Absent
                                  THEN <<"(No Subject)">>
                                  ELSE FieldOf(block, "subject")
                 /\ msg.from = IF FieldOf(block, "from") = Absent
                               THEN <<>> ELSE FieldOf(block, "from")
                 /\ msg.date = IF attrs.date.kind = "valid"
                               THEN toISOString(attrs.date.t)
                               ELSE toISOString(ParseTime)

\* What holds of the code: the same, for the items whose date is not an
\* Invalid Date.
C26_ExceptInvalidDate ==
    \A o \in Ops : \A i \in EndedWithAttributes(o) \ Unparsable(o) :
        \E m \in 1..Len(ops[o].fetch.messages) :
             LET msg == ops[o].fetch.messages[m]
                 block == Items(o)[i].header
                 attrs == Items(o)[i].attributes
             IN  /\ msg.subject = IF FieldOf(block, "subject") = Absent
                                  THEN <<"(No Subject)">>
                                  ELSE FieldOf(block, "subject")
                 /\ msg.from = IF FieldOf(block, "from") = Absent
                               THEN <<>> ELSE FieldOf(block, "from")
                 /\ msg.date = IF attrs.date.kind = "valid"
                               THEN toISOString(attrs.date.t)
                               ELSE toISOString(ParseTime)
                 /\ msg.id = IF attrs.hasUid THEN <<attrs.uid>> ELSE <<>>

\* A subject with further colons was parsed whole.
C26_ColonWitness ==
    \E o \in Ops :
        /\ Len(ops[o].fetch.messages) = 1
        /\ ops[o].fetch.messages[1].subject = <<"Re", ":", " ", "a", ":", "b">>
        /\ ops[o].fetch.messages[1].from = <<>>

\* The To field of a block cut at its commas, each piece trimmed, the empty
\* pieces dropped.
Recipients(block) ==
    LET pieces == split(FieldOf(block, "to"), ",")
    IN  IF FieldOf(block, "to") = Absent THEN <<>>
        ELSE SelectSeq([k \in 1..Len(pieces) |-> trim(pieces[k])],
                       LAMBDA address : address # <<>>)

Parsed(o) == EndedWithAttributes(o) \ Unparsable(o)

\* C27: the recipient list of a parsed Message is the To field cut at its
\* commas, trimmed, without the empty pieces; when nothing is left it is a
\* single raw string; in no case does it hold an empty entry.
C27_Recipients ==
    \A o \in Ops : \A i \in Parsed(o) :
        \E m \in 1..Len(ops[o].fetch.messages) :
            LET to == ops[o].fetch.messages[m].to
                expected == Recipients(Items(o)[i].header)
            IN  /\ \A k \in 1..Len(to) : to[k] # <<>>
                /\ expected # <<>> => to = expected
                /\ expected = <<>> => Len(to) = 1

\* What holds of the code: the fallback is the raw To value, which is the
\* empty string when the block has no To field or an empty one.
C27_ExceptAbsentTo ==
    \A o \in Ops : \A i \in Parsed(o) :
        \E m \in 1..Len(ops[o].fetch.messages) :
            LET to == ops[o].fetch.messages[m].to
                block == Items(o)[i].header
                expected == Recipients(block)
            IN  /\ expected # <<>> => to = expected
                /\ (expected = <<>> /\ FieldOf(block, "to") # Absent) =>
                      to = <<FieldOf(block, "to")>>
                /\ FieldOf(block, "to") = Absent => to = << <<>> >>

\* Two recipients around an empty entry; a To field of commas only.
C27_ListWitness ==
    \E o \in Ops :
        /\ Len(ops[o].fetch.messages) = 1
        /\ ops[o].fetch.messages[1].to = << <<"b@x">>, <<"c@x">> >>

C27_FallbackWitness ==
    \E o \in Ops :
        /\ Len(ops[o].fetch.messages) = 1
        /\ ops[o].fetch.messages[1].to = << <<",">> >>

\* The mailbox an operation fetches its messages from: the folder its query
\* translates to for searchMessages, the inbox otherwise.
FetchedFrom(o) ==
    IF ops[o].kind = "searchMessages"
    THEN parseSearchQuery(ops[o].args.query).folder
    ELSE INBOX

Returned(o) ==
    IF ops[o].promise = "resolved" /\ ops[o].kind \in
          {"listMessages", "searchMessages", "listUnreadMessages"}
    THEN ops[o].result.messages ELSE <<>>

\* C28: every Message an operation returns carries, in its labels, the
\* mailbox it was fetched from.
C28_LabelsSeeded ==
    \A o \in Ops : \A m \in 1..Len(Returned(o)) :
        \E k \in 1..Len(Returned(o)[m].labels) :
            Returned(o)[m].labels[k] = FetchedFrom(o)

\* What holds of the code: the labels are INBOX alone, whatever the mailbox.
C28_AlwaysInbox ==
    \A o \in Ops : \A m \in 1..Len(Returned(o)) :
        Returned(o)[m].labels = <<INBOX>>

C28_InboxWitness ==
    \E o \in Ops :
        /\ ops[o].kind = "listMessages"
        /\ Len(Returned(o)) = 2

C28_SentWitness ==
    \E o \in Ops :
        /\ FetchedFrom(o) = SENT
        /\ Len(Returned(o)) = 2

\* The number of nodes of a mailbox tree.
RECURSIVE NodeCount(_)
NodeCount(boxes) ==
    IF boxes = <<>> THEN 0
    ELSE 1 + NodeCount(Head(boxes).children) + NodeCount(Tail(boxes))

ReportedOr(box) == IF box.delimiter # "" THEN box.delimiter ELSE "/"

\* The delimiters that may join the path of parent (a node) to its child
\* box: any hierarchy delimiter, the parent's own, or the child's own.
JoinedBy(which, parent, box) ==
    CASE which = "any" -> {"/", "."}
      [] which = "parent" -> {ReportedOr(parent)}
      [] which = "child" -> {ReportedOr(box)}

\* out lists the nodes of boxes depth first, each node before its children
\* and its children before its next sibling: a top-level node by its name, a
\* child of parent (whose path is parentPath) by parentPath + delimiter +
\* its name.
RECURSIVE DepthFirst(_, _, _, _, _)
DepthFirst(boxes, out, which, parent, parentPath) ==
    IF boxes = <<>> THEN out = <<>>
    ELSE LET box == Head(boxes)
             below == NodeCount(box.children)
         IN  /\ Len(out) >= 1 + below
             /\ IF parentPath = <<>> THEN out[1] = <<box.name>>
                ELSE \E d \in JoinedBy(which, parent, box) :
                        out[1] = parentPath \o <<d, box.name>>
             /\ DepthFirst(box.children, SubSeq(out, 2, 1 + below),
                           which, box, out[1])
             /\ DepthFirst(Tail(boxes), SubSeq(out, 2 + below, Len(out)),
                           which, parent, parentPath)

Listed(o) ==
    IF ops[o].kind = "listLabels" /\ ops[o].promise = "resolved"
       /\ At(o, "boxes") # {}
    THEN {LogOf(o)[i].boxes : i \in At(o, "boxes")} ELSE {}

\* C29: the list parseMailboxes returns for a mailbox tree has one path per
\* node, the empty list for the empty tree, in depth-first order with each
\* parent before its children, a child's path being its parent's path, a
\* delimiter and its name.
C29_OnePathPerNode ==
    \A o \in Ops : \A boxes \in Listed(o) :
        /\ Len(ops[o].result.labels) = NodeCount(boxes)
        /\ boxes = <<>> => ops[o].result.labels = <<>>
        /\ DepthFirst(boxes, ops[o].result.labels, "any", Node("", "", <<>>), <<>>)

\* A tree of three levels with a sibling after the subtree.
C29_Witness ==
    \E o \in Ops :
        /\ Listed(o) # {}
        /\ ops[o].result.labels =
              << <<"A">>, <<"A", "/", "A">>, <<"A", "/", "A", "/", "A">>,
                 <<"A", "/", "B">>, <<"B">> >>

C29_EmptyWitness ==
    \E o \in Ops : <<>> \in Listed(o) /\ ops[o].result.labels = <<>>

\* C30 as stated: the delimiter that joins a parent's path to a child's name
\* is the one the parent node reports ("/" when it reports none), also where
\* the child reports another.
C30_ParentDelimiter ==
    \A o \in Ops : \A boxes \in Listed(o) :
        DepthFirst(boxes, ops[o].result.labels, "parent",
                   Node("", "", <<>>), <<>>)

\* C30 as the code has it: the delimiter that joins a parent's path to a
\* child's name is the one the child node reports ("/" when it reports
\* none), also where the parent reports another.
C30_ChildDelimiter ==
    \A o \in Ops : \A boxes \in Listed(o) :
        DepthFirst(boxes, ops[o].result.labels, "child",
                   Node("", "", <<>>), <<>>)

\* A parent reporting "." with a child reporting "/".
C30_MixedWitness ==
    \E o \in Ops :
        /\ <<Node("A", ".", <<Node("A", "/", <<>>)>>)>> \in Listed(o)
        /\ ops[o].result.labels = << <<"A">>, <<"A", "/", "A">> >>

\* The places of a query where in:<word> begins, in either case, and the
\* word that follows the colon there.
InAt(query) ==
    {p \in 1..(Len(query) - 3) :
        /\ query[p] \in {"i", "I"}
        /\ query[p + 1] \in {"n", "N"}
        /\ query[p + 2] = ":"
        /\ query[p + 3] \in WordChars}

WordEnd(query, p) ==
    CHOOSE e \in (p + 3)..Len(query) :
        /\ \A k \in (p + 3)..e : query[k] \in WordChars
        /\ e < Len(query) => query[e + 1] \notin WordChars

FirstIn(query) == CHOOSE p \in InAt(query) : \A r \in InAt(query) : p <= r

FolderWord(query) ==
    toLowerCase(SubSeq(query, FirstIn(query) + 3,
                       WordEnd(query, FirstIn(query))))

\* The fixed table of logical folder names.
FolderTable ==
    { <<<<"i", "n", "b", "o", "x">>, INBOX>>,
      <<<<"s", "e", "n", "t">>, SENT>>,
      <<<<"t", "r", "a", "s", "h">>, TRASH>>,
      <<<<"b", "i", "n">>, BIN>>,
      <<<<"s", "p", "a", "m">>, SPAM>>,
      <<<<"d", "r", "a", "f", "t", "s">>, DRAFTS>>,
      <<<<"s", "t", "a", "r", "r", "e", "d">>, STARRED>>,
      <<<<"i", "m", "p", "o", "r", "t", "a", "n", "t">>, IMPORTANT>>,
      <<<<"a", "l", "l">>, ALLMAIL>> }

FolderFor(query) ==
    IF InAt(query) = {} THEN INBOX
    ELSE IF \E row \in FolderTable : row[1] = FolderWord(query)
    THEN (CHOOSE row \in FolderTable : row[1] = FolderWord(query))[2]
    ELSE INBOX

\* The mailbox searchMessages opens first, and the text of its search.
Opened(o) ==
    {LogOf(o)[i].cmd.box :
        i \in {j \in At(o, "cmd") :
                 LogOf(o)[j].cmd.k = "searchMessages.openBox"}}

Searched(o) ==
    {LogOf(o)[i].cmd.text :
        i \in {j \in At(o, "cmd") : LogOf(o)[j].cmd.name = "search"}}

\* C31: searchMessages opens the folder of the table for the lower-cased
\* word of the first in:<word> of its query, in either case, and INBOX for
\* every other word and for a query without in:<word>, whose terms are
\* searched unchanged.
C31_FolderOfQuery ==
    \A o \in Ops :
        ops[o].kind = "searchMessages" =>
            /\ \A box \in Opened(o) : box = FolderFor(ops[o].args.query)
            /\ (InAt(ops[o].args.query) = {} /\ ops[o].args.query # <<>>) =>
                 \A text \in Searched(o) :
                    text = <<"ALL", "TEXT">> \o ops[o].args.query

\* What holds of the code: the same, but for the two names that folderMap
\* inherits from Object.prototype.
Inherited(query) ==
    /\ InAt(query) # {}
    /\ FolderWord(query) \in
          { <<"c", "o", "n", "s", "t", "r", "u", "c", "t", "o", "r">>,
            <<"_", "_", "p", "r", "o", "t", "o", "_", "_">> }

C31_ExceptInherited ==
    \A o \in Ops :
        (ops[o].kind = "searchMessages" /\ ~Inherited(ops[o].args.query)) =>
            /\ \A box \in Opened(o) : box = FolderFor(ops[o].args.query)
            /\ (InAt(ops[o].args.query) = {} /\ ops[o].args.query # <<>>) =>
                 \A text \in Searched(o) :
                    text = <<"ALL", "TEXT">> \o ops[o].args.query

\* "in:sent find me" opened Sent Mail and searched for "find me".
C31_SentWitness ==
    \E o \in Ops :
        /\ ops[o].args.query =
              <<"i", "n", ":", "s", "e", "n", "t", " ",
                "f", "i", "n", "d", " ", "m", "e">>
        /\ Opened(o) = {SENT}
        /\ Searched(o) =
              {<<"ALL", "TEXT", "f", "i", "n", "d", " ", "m", "e">>}

\* "in:bogus x" opened INBOX and searched for "x".
C31_BogusWitness ==
    \E o \in Ops :
        /\ ops[o].args.query = <<"i", "n", ":", "b", "o", "g", "u", "s", " ", "x">>
        /\ Opened(o) = {INBOX}
        /\ Searched(o) = {<<"ALL", "TEXT", "x">>}

\* The positions of a query taken by its in:<word> tokens, each with the
\* white space that follows it, found from left to right from position from.
SpanEnd(query, p) ==
    LET e == WordEnd(query, p)
    IN  CHOOSE s \in e..Len(query) :
            /\ \A k \in (e + 1)..s : query[k] \in SpaceChars
            /\ s < Len(query) => query[s + 1] \notin SpaceChars

RECURSIVE Covered(_, _)
Covered(query, from) ==
    LET starts == {p \in InAt(query) : p >= from}
        p == CHOOSE q \in starts : \A r \in starts : q <= r
    IN  IF starts = {} THEN {}
        ELSE (p..SpanEnd(query, p)) \cup Covered(query, SpanEnd(query, p) + 1)

Remainder(query) ==
    LET kept == {k \in 1..Len(query) : k \notin Covered(query, 1)}
        nth(n) == CHOOSE k \in kept :
                     Cardinality({j \in kept : j < k}) = n - 1
    IN  [n \in 1..Cardinality(kept) |-> query[nth(n)]]

\* s without the white space at its ends.
Trimmed(s) ==
    LET solid == {k \in 1..Len(s) : s[k] \notin SpaceChars}
    IN  IF solid = {} THEN <<>>
        ELSE SubSeq(s, CHOOSE k \in solid : \A j \in solid : k <= j,
                       CHOOSE k \in solid : \A j \in solid : k >= j)

CriteriaFor(terms) ==
    IF terms = <<>> THEN <<"ALL">> ELSE <<"ALL", "TEXT">> \o terms

\* C32 as stated: the search of a query with in:<word> is for the query
\* without its in:<word> tokens and their trailing white space, and nothing
\* else removed: match-all when that is empty, a text search for it
\* otherwise.
C32_TermsAfterToken ==
    \A o \in Ops :
        (ops[o].kind = "searchMessages" /\ InAt(ops[o].args.query) # {}) =>
            \A text \in Searched(o) :
                text = CriteriaFor(Remainder(ops[o].args.query))

\* C32 as the code has it: the search of a query with in:<word> is for the
\* query without its in:<word> tokens and their trailing white space, and
\* without the white space left at either end: match-all when that is
\* empty, a text search for it otherwise.
C32_TrimmedTerms ==
    \A o \in Ops :
        (ops[o].kind = "searchMessages" /\ InAt(ops[o].args.query) # {}) =>
            \A text \in Searched(o) :
                text = CriteriaFor(Trimmed(Remainder(ops[o].args.query)))

\* "find me IN:Trash" was searched as "find me"; " in:sent" as match-all.
C32_Witness ==
    \E o \in Ops :
        /\ ops[o].args.query =
              <<"f", "i", "n", "d", " ", "m", "e", " ",
                "I", "N", ":", "T", "r", "a", "s", "h">>
        /\ Searched(o) = {<<"ALL", "TEXT", "f", "i", "n", "d", " ", "m", "e">>}

C32_MatchAllWitness ==
    \E o \in Ops :
        /\ ops[o].args.query = <<" ", "i", "n", ":", "s", "e", "n", "t">>
        /\ Searched(o) = {<<"ALL">>}

\* C33: listMessages, listUnreadMessages and searchMessages open every
\* mailbox read-only and issue nothing but openBox, search and fetch: no
\* command that changes flags, moves, copies, renames, creates or deletes,
\* on any path, the one through [Gmail]/Bin included.
ReadKinds == {"listMessages", "listUnreadMessages", "searchMessages"}

C33_ReadOnly ==
    \A o \in Ops :
        ops[o].kind \in ReadKinds =>
            \A i \in At(o, "cmd") :
                LET rec == LogOf(o)[i].cmd
                IN  /\ rec.name \in {"openBox", "search", "fetch"}
                    /\ rec.name = "openBox" => rec.ro

\* A search that went through [Gmail]/Bin and returned a message.
C33_Witness ==
    \E o \in Ops :
        /\ ops[o].kind = "searchMessages"
        /\ ops[o].promise = "resolved"
        /\ Len(ops[o].result.messages) >= 1
        /\ \E i \in At(o, "cmd") :
             LogOf(o)[i].cmd.box = BIN /\ LogOf(o)[i].cmd.ro

\* The mail options sendMessage handed to the transporter.
Sent(o) == {LogOf(o)[i] : i \in At(o, "sendMail")}

\* An array joined into one comma-separated string; other values as given.
RECURSIVE Joined(_)
Joined(list) ==
    IF list = <<>> THEN <<>>
    ELSE IF Len(list) = 1 THEN list[1]
    ELSE list[1] \o <<", ">> \o Joined(Tail(list))

Normal(given, handed) ==
    /\ given.kind = "undefined" => handed.kind = "undefined"
    /\ given.kind = "array" =>
          handed.kind = "string" /\ handed.str = Joined(given.list)
    /\ (given.kind = "string" /\ given.str # <<>>) => handed = given

\* C34: sendMessage never raises: once the transporter has answered, the
\* caller has a returned result, either success with the transporter's
\* identifier or failure with an empty identifier and a reason; an array cc
\* or bcc reaches the transporter as one comma-separated string, an absent
\* one as absent.
C34_SendNeverRaises ==
    \A o \in Ops :
        ops[o].kind = "sendMessage" =>
            /\ ops[o].promise # "rejected"
            /\ ops[o].caller.state # "thrown"
            /\ ops[o].promise = "resolved" =>
                 LET result == ops[o].caller.value
                 IN  /\ ops[o].caller.state = "returned"
                     /\ IF result.success
                        THEN /\ result.messageId # <<>>
                             /\ At(o, "sendMail") # {}
                        ELSE /\ result.messageId = <<>>
                             /\ Len(result.message) >= 2
                             /\ result.message[1] = "Failed to send email: "
            /\ \A mail \in Sent(o) :
                 /\ Normal(ops[o].args.cc, mail.cc)
                 /\ Normal(ops[o].args.bcc, mail.bcc)

\* An array of two addresses was sent as one string and the send failed
\* with an Error.
C34_Witness ==
    \E o \in Ops :
        /\ ops[o].args.cc = Arr(<< <<"a@x">>, <<"b@x">> >>)
        /\ ops[o].args.bcc = NoValue
        /\ \E mail \in Sent(o) :
             mail.cc = Str(<<"a@x", ", ", "b@x">>) /\ mail.bcc = NoValue
        /\ ops[o].caller.state = "returned"
        /\ ops[o].caller.value.message = <<"Failed to send email: ", "smtp">>

C34_SuccessWitness ==
    \E o \in Ops :
        /\ ops[o].kind = "sendMessage"
        /\ ops[o].caller.state = "returned"
        /\ ops[o].caller.value.success
        /\ ops[o].caller.value.messageId = <<"<1@x>">>

\* How each mailbox-backed method of EmailOperations names itself in an
\* error.
Naming ==
    { <<"listMessages", "Failed to list messages: ">>,
      <<"listUnreadMessages", "Failed to list unread messages: ">>,
      <<"searchMessages", "Failed to search messages: ">>,
      <<"markMessagesAsRead", "Failed to mark messages as read: ">>,
      <<"deleteMessages", "Failed to delete messages: ">>,
      <<"createLabel", "Failed to create label: ">>,
      <<"labelMessage", "Failed to label message: ">>,
      <<"moveMessage", "Failed to move message: ">>,
      <<"listLabels", "Failed to list labels: ">>,
      <<"deleteLabel", "Failed to delete label: ">>,
      <<"renameLabel", "Failed to rename label: ">>,
      <<"moveLabel", "Failed to move label: ">> }

\* C35: for every mailbox-backed method of EmailOperations, a rejected
\* ImapService call reaches the caller as one thrown Error whose message is
\* the method's "Failed to ..." text followed by the message of the error
\* the call was rejected with; a resolved call reaches the caller as the
\* very value it resolved with; before the call settles the caller has
\* nothing.
C35_SingleDescriptiveError ==
    \A o \in Ops : \A row \in Naming :
        ops[o].kind = row[1] =>
            /\ ops[o].promise = "pending" => ops[o].caller.state = "none"
            /\ ops[o].promise = "rejected" =>
                 /\ ops[o].caller.state = "thrown"
                 /\ ops[o].caller.error.isError
                 /\ ops[o].caller.error.msg = <<row[2]>> \o ops[o].result.err.msg
                 /\ ops[o].result.err.isError
                 /\ ops[o].caller.value = NoResult
            /\ ops[o].promise = "resolved" =>
                 /\ ops[o].caller.state = "returned"
                 /\ ops[o].caller.value = ops[o].result
                 /\ ops[o].caller.error = NoErr

\* A failed move to Trash and Bin surfaced as "Failed to delete messages: "
\* and the server's message.
C35_Witness ==
    \E o \in Ops :
        /\ ops[o].kind = "deleteMessages"
        /\ ops[o].caller.state = "thrown"
        /\ ops[o].caller.error.msg = <<"Failed to delete messages: ", "server">>

C35_PassThroughWitness ==
    \E o \in Ops :
        /\ ops[o].kind = "listLabels"
        /\ ops[o].caller.state = "returned"
        /\ Len(ops[o].caller.value.labels) = 2

C36_WitnessResolved ==
    \E o \in Ops :
        /\ ops[o].promise = "resolved"
        /\ \E i \in At(o, "resolve") : \E j \in At(o, "onError") : i < j

\* C37: no command is issued on a connection after imap.end has been called
\* for it: in the history of every operation, every command comes before
\* every call of imap.end.
C37_NoCommandAfterEnd ==
    \A o \in Ops :
        \A i \in At(o, "cmd") : \A j \in At(o, "end") : i < j

\* What holds of the code: the same for the operations whose connection
\* raised no error event.
C37_ExceptConnectionError ==
    \A o \in Ops :
        At(o, "onError") = {} =>
            \A i \in At(o, "cmd") : \A j \in At(o, "end") : i < j

\* The close was requested by the error handler, and the callback of the
\* pending openBox of [Gmail]/Trash then opened [Gmail]/Bin.
C37_FallbackAfterEnd ==
    \E o \in Ops :
        \E j \in At(o, "end") : \E i \in At(o, "cmd") :
            /\ j < i
            /\ LogOf(o)[i].cmd.box = BIN
            /\ LogOf(o)[i].cmd.name = "openBox"

\* The commands of an operation issued before step j of its history and not
\* completed before it.
OutstandingAt(o, j) ==
    {i \in At(o, "cmd") :
        /\ i < j
        /\ ~\E k \in At(o, "cb") :
              i < k /\ k < j /\ LogOf(o)[k].cmd.id = LogOf(o)[i].cmd.id}

\* C38: whenever imap.end is called, every command issued on the connection
\* before has completed: none is outstanding.
C38_NoEndWhileOutstanding ==
    \A o \in Ops : \A j \in At(o, "end") : OutstandingAt(o, j) = {}

\* What holds of the code: the same, unless the connection raised an error
\* event, the fetch reported an error, or the operation is a labelMessage
\* with more than one label.
C38_ExceptEarlyFailure ==
    \A o \in Ops :
        (/\ At(o, "onError") = {}
         /\ At(o, "fetchError") = {}
         /\ ~(ops[o].kind = "labelMessage" /\ Len(ops[o].args.labels) > 1)) =>
            \A j \in At(o, "end") : OutstandingAt(o, j) = {}

\* labelMessage with two labels and no connection error: the first copy
\* failed and imap.end was called while the second was outstanding.
C38_CopyInFlight ==
    \E o \in Ops :
        /\ ops[o].kind = "labelMessage"
        /\ At(o, "onError") = {}
        /\ \E j \in At(o, "end") :
             \E i \in OutstandingAt(o, j) : LogOf(o)[i].cmd.name = "copy"

\* ------------------------------------------------------------------------
\* The Fetch Pipeline with several items under way at once: up to MaxOpen
\* items have had their 'message' event and not yet their 'end', and their
\* body chunks, attribute events and end events arrive in any order. Every
\* item has a header block and an attribute block of its own.
MaxOpen == 2

ItemWord(i) ==
    CASE i = 1 -> "one" [] i = 2 -> "two" [] i = 3 -> "three"
      [] OTHER -> "more"

ItemHeader(i) ==
    <<"Subject", ":", ItemWord(i), CRLF, "From", ":", ItemWord(i), "@x">>

ItemAttrs(rec, i) == Attrs(TRUE, rec.ids[i], "valid", i)

Msg_onItemData(o) ==
    \E rec \in Pending(o, "fetch"), i \in OpenItems(o) :
      \E chunk \in NextChunks(ItemHeader(i), ops[o].fetch.items[i].header) :
        Commit(msg_onData(World, o, i, chunk))

Msg_onItemAttributes(o) ==
    \E rec \in Pending(o, "fetch"), i \in OpenItems(o) :
        /\ ~ops[o].fetch.items[i].hasAttributes
        /\ Commit(msg_onAttributes(World, o, i, ItemAttrs(rec, i)))

NextInterleave ==
    \/ CallFetch
    \/ TransportReady(1)
    \/ Fetch_onMessage(1, MaxOpen)
    \/ Msg_onItemData(1)
    \/ Msg_onItemAttributes(1)
    \/ Msg_onEnd(1, {0})
    \/ Fetch_onEnd(1)

SpecInterleave == Init /\ [][NextInterleave]_vars

\* The messages an operation has built so far, and those it handed back.
Built(o) ==
    IF ops[o].promise = "resolved" /\ ops[o].kind = "fetchMessages"
    THEN ops[o].result.messages ELSE ops[o].fetch.messages

\* Message m carries what the server sent for item i and nothing else: the
\* uid and receipt date of its attribute block, and the subject and sender
\* of its header block as far as it had arrived.
FromItem(m, i) ==
    /\ m.id = <<i>>
    /\ m.threadId = <<i>>
    /\ m.date = [iso |-> i]
    /\ m.subject \in {<<ItemWord(i)>>, <<"(No Subject)">>}
    /\ m.from \in {<<ItemWord(i), "@x">>, <<>>}

\* C39: with the events of several fetched items interleaved, every Message
\* is built from the header bytes and the attribute block of one and the
\* same item that has ended, and no two Messages come from the same item.
C39_ItemsNeverMixed ==
    \A o \in Ops :
        ops[o].kind = "fetchMessages" =>
            LET msgs == Built(o)
                items == ops[o].fetch.items
            IN  /\ \A k \in 1..Len(msgs) :
                     \E i \in 1..Len(items) :
                        /\ items[i].ended
                        /\ items[i].hasAttributes
                        /\ FromItem(msgs[k], i)
                /\ \A k, l \in 1..Len(msgs) :
                     msgs[k].id = msgs[l].id => k = l

\* Two items are open at once: the first has its attributes and part of its
\* header and has not ended, while the second, started after it, has ended
\* and its Message is built.
C39_Witness ==
    \E o \in Ops :
        /\ Len(ops[o].fetch.items) >= 2
        /\ ~ops[o].fetch.items[1].ended
        /\ ops[o].fetch.items[1].hasAttributes
        /\ ops[o].fetch.items[1].header # <<>>
        /\ ops[o].fetch.items[1].header # ItemHeader(1)
        /\ ops[o].fetch.items[2].ended
        /\ Len(ops[o].fetch.messages) = 1
        /\ ops[o].fetch.messages[1].subject = <<"two">>

\* Both Messages of two interleaved items were handed back.
C39_BothReturned ==
    \E o \in Ops :
        /\ ops[o].promise = "resolved"
        /\ Len(ops[o].result.messages) = 2
        /\ \E k, l \in 1..2 :
             /\ ops[o].result.messages[k].subject = <<"one">>
             /\ ops[o].result.messages[l].subject = <<"two">>

====
